---- MODULE Spec2Model ----
(***************************************************************************)
(* Cascata gateway: request pipeline (resolveProject, cascataAuth, the     *)
(* raw-SQL handler), the PostgREST query translator and the webhook job    *)
(* engine, as state machines translated from the TypeScript sources.       *)
(*                                                                         *)
(* Strings are TLA+ strings; the JavaScript string methods the code uses   *)
(* (includes, startsWith, endsWith, split, replace) are defined below on   *)
(* them, so that a substring test in the code is a substring test here.    *)
(* JavaScript's undefined / null / missing header is the empty string "".  *)
(***************************************************************************)
EXTENDS Integers, Sequences, FiniteSets, TLC

VARIABLES
    req,        \* the HTTP request being served (its inputs), or NoReq
    pc,         \* position of the request in the middleware chain
    res,        \* HTTP status answered, 0 while none was sent
    r,          \* the CascataRequest fields the middlewares attach
    found,      \* slug of the project row resolveProject fetched, "" if none
    shield,     \* the panic flag of the fetched project when resolveProject ran
    handled,    \* TRUE once a route handler ran for this request
    panic,      \* panic flags of the shared rate-limit store: a set of slugs
    dbLog,      \* statements this request sent to the tenant database
    pgIn,       \* the arguments of the buildQuery call being made, or NoCall
    pgOut,      \* what buildQuery returned (or threw) for pgIn
    projSecret, \* the jwt_secret of project acme in system.projects
    hook,       \* the row of system.webhooks with id 1, NoHook until created
    job,        \* the job of the cascata-webhooks queue, or NoJob
    outbox,     \* the HTTP POSTs made for that job, over all its attempts
    logs,       \* the console lines written by the last step
    httpRes,    \* the response body the last step answered, "" if none
    attempt,    \* the last run of the worker's processor
    pools,      \* PoolService.pools: the entries of the Map, in insertion order
    poolObjs,   \* the pg.Pool objects constructed so far; a pool is its index
    clock,      \* Date.now()
    held,       \* the pool handle a caller got from get and still uses, 0 if none
    last,       \* the last operation on the registry and what it did
    subscribers, \* RealtimeService.subscribers: the connections of each slug
    listeners,  \* RealtimeService.listeners: the pg Client of each slug, 0 if none
    clients,    \* the pg Clients setupProjectListener constructed so far
    conns,      \* the SSE requests so far; a connection is its index
    rtLast,     \* what the last operation of the bridge answered or wrote
    devices,    \* the rows of auth.user_devices of the tenant
    calls,      \* the registerDevice calls in progress
    pushClock,  \* NOW() of the tenant database
    pushLast,   \* the registerDevice call that returned last
    delivery,   \* the push delivery in progress or just finished
    proc,       \* the API server process while it shuts down
    exposure,   \* metadata.schema_exposure of each project in system.projects
    trigger,    \* the last run of processEventTrigger and what it did
    pushQueue,  \* the jobs waiting in the cascata-push queue
    worker,     \* the last run of the push worker's processor
    sysProjects, \* the rows of system.projects, by slug
    databases,  \* the names of the databases of the cluster
    createLast  \* the last createProject call and how it ended

pipeVars == <<req, pc, res, r, found, shield, handled, panic, dbLog>>

pgVars == <<pgIn, pgOut>>

hookVars == <<projSecret, hook, job, outbox, logs, httpRes, attempt>>

poolVars == <<pools, poolObjs, clock, held, last>>

rtVars == <<subscribers, listeners, clients, conns, rtLast>>

pushVars == <<devices, calls, pushClock, pushLast, delivery>>

procVars == <<proc>>

exposureVars == <<exposure>>

engineVars == <<trigger, pushQueue, worker>>

adminVars == <<sysProjects, databases, createLast>>

vars == <<pipeVars, pgVars, hookVars, poolVars, rtVars, pushVars, procVars, exposureVars,
          engineVars, adminVars>>

\* what an action of one subsystem leaves alone
notPipeVars == <<pgVars, hookVars, poolVars, rtVars, pushVars, procVars, exposureVars,
    engineVars, adminVars>>

notPgVars == <<pipeVars, hookVars, poolVars, rtVars, pushVars, procVars, exposureVars,
    engineVars, adminVars>>

notHookVars == <<pipeVars, pgVars, poolVars, rtVars, pushVars, procVars, exposureVars,
    engineVars, adminVars>>

notPoolVars == <<pipeVars, pgVars, hookVars, rtVars, pushVars, procVars, exposureVars,
    engineVars, adminVars>>

notRtVars == <<pipeVars, pgVars, hookVars, poolVars, pushVars, procVars, exposureVars,
    engineVars, adminVars>>

notPushVars == <<pipeVars, pgVars, hookVars, poolVars, rtVars, procVars, exposureVars,
    engineVars, adminVars>>

notProcVars == <<pipeVars, pgVars, hookVars, poolVars, rtVars, pushVars, exposureVars,
    engineVars, adminVars>>

notEngineVars == <<pipeVars, pgVars, hookVars, poolVars, rtVars, pushVars, procVars,
    exposureVars, adminVars>>

notAdminVars == <<pipeVars, pgVars, hookVars, poolVars, rtVars, pushVars, procVars,
    exposureVars, engineVars>>

notExposureVars == <<pipeVars, pgVars, hookVars, poolVars, rtVars, pushVars, procVars,
    engineVars, adminVars>>

-----------------------------------------------------------------------------
(* JavaScript string methods *)

Includes(s, sub) ==
    \E i \in 1..(Len(s) - Len(sub) + 1) : SubSeq(s, i, i + Len(sub) - 1) = sub

StartsWith(s, p) == Len(s) >= Len(p) /\ SubSeq(s, 1, Len(p)) = p

EndsWith(s, p) == Len(s) >= Len(p) /\ SubSeq(s, Len(s) - Len(p) + 1, Len(s)) = p

\* index of the first occurrence of the one-character string c, 0 if none
IndexOf(s, c) ==
    IF \E i \in 1..Len(s) : SubSeq(s, i, i) = c
    THEN CHOOSE i \in 1..Len(s) :
            /\ SubSeq(s, i, i) = c
            /\ \A j \in 1..(i - 1) : SubSeq(s, j, j) # c
    ELSE 0

\* s.split(c) for a one-character separator c
RECURSIVE Split(_, _)
Split(s, c) ==
    LET i == IndexOf(s, c)
    IN  IF i = 0 THEN <<s>>
        ELSE <<SubSeq(s, 1, i - 1)>> \o Split(SubSeq(s, i + 1, Len(s)), c)

-----------------------------------------------------------------------------
(* The control database: system.projects *)

SYSTEM_JWT_SECRET == "SYS"

Slugs == {"acme", "shop"}

Projects ==
    [s \in Slugs |->
        IF s = "acme"
        THEN [slug |-> "acme", db_name |-> "db_acme", custom_domain |-> "",
              service_key |-> "svc_acme", anon_key |-> "anon_acme",
              jwt_secret |-> "jws_acme", blocklist |-> {"6.6.6.6"},
              external_db_url |-> "",
              read_replica_url |-> "postgres://replica.acme/db"]
        ELSE [slug |-> "shop", db_name |-> "db_shop",
              custom_domain |-> "api.shop.io",
              service_key |-> "svc_shop", anon_key |-> "anon_shop",
              jwt_secret |-> "jws_shop", blocklist |-> {},
              external_db_url |-> "postgres://ext.shop/db",
              read_replica_url |-> ""]]

\* jwt.verify(token, secret): a token is "jwt.<signing secret>.<claims>"
JwtVerify(token, secret) == StartsWith(token, "jwt." \o secret \o ".")

JwtDecode(token, secret) ==
    SubSeq(token, Len("jwt." \o secret \o ".") + 1, Len(token))

-----------------------------------------------------------------------------
(* Requests *)

NoReq == [method |-> "", host |-> "", path |-> "", authorization |-> "",
          queryToken |-> "", apikey |-> "", clientIp |-> ""]

Hosts == {"localhost:3000", "api.shop.io", "gw.example.com", "localhost.evil.com"}

Paths == {"/api/data/acme/tables", "/api/data/acme/query",
          "/api/data/shop/query", "/api/data/shop/auth/callback",
          "/api/data/acme/edge/hello", "/api/data/nope/query",
          "/query", "/health", "/api/control/projects/acme"}

Tokens == {"svc_acme", "anon_acme", "svc_shop", "jwt.jws_acme.u1",
           "jwt.jws_shop.u7", "jwt.SYS.admin", "garbage"}

Requests ==
    [method : {"GET", "POST"}, host : Hosts, path : Paths,
     authorization : {""} \cup {"Bearer " \o t : t \in Tokens},
     queryToken : {""},
     apikey : {"", "svc_acme", "anon_acme", "anon_shop"},
     clientIp : {"1.2.3.4"}]
        \cup
    [method : {"GET"}, host : {"localhost:3000", "gw.example.com"},
     path : {"/api/data/acme/tables", "/api/data/shop/query"},
     authorization : {"", "Bearer svc_acme", "Bearer jwt.SYS.admin"},
     queryToken : {""}, apikey : {""}, clientIp : {"6.6.6.6"}]
        \cup
    [method : {"GET"}, host : {"gw.example.com"},
     path : {"/api/data/acme/tables", "/api/control/projects/acme/export"},
     authorization : {"", "Basic abc"},
     queryToken : {"anon_acme", "jwt.SYS.admin"},
     apikey : {""}, clientIp : {"1.2.3.4"}]

\* authHeader?.startsWith('Bearer ') ? authHeader.split(' ')[1] : req.query.token
BearerOf(q) ==
    IF StartsWith(q.authorization, "Bearer ")
    THEN Split(q.authorization, " ")[2]
    ELSE q.queryToken

NoPool == [db |-> "", conn |-> ""]

EmptyCtx == [isSystemRequest |-> FALSE, project |-> "", projectPool |-> NoPool,
             userRole |-> "", user |-> "", url |-> ""]

-----------------------------------------------------------------------------
(* RateLimitService.checkPanic: the panic flag of a slug in the shared store *)
checkPanic(slug, flags) == slug \in flags

\* PoolService.get(db, {connectionString}): the pool the request is handed
PoolServiceGet(db, connectionString) == [db |-> db, conn |-> connectionString]

-----------------------------------------------------------------------------
(* resolveProject: what the middleware decides for request q when the      *)
(* panic flags are `flags`.  next: it called next(); status: the status it *)
(* answered (0: none); ctx: the fields it attached; row: the slug of the   *)
(* project row it fetched; flagged: that project's panic flag at the time. *)

ResolveOut(next, status, ctx, row, flagged) ==
    [next |-> next, status |-> status, ctx |-> ctx, row |-> row, flagged |-> flagged]

\* the pool selection of the CONNECTION STRATEGY block
targetConnectionString(project, method) ==
    IF method = "GET" /\ project.read_replica_url # ""
    THEN project.read_replica_url
    ELSE project.external_db_url

\* as panicBlocks, with the admin exemption forgotten
panicBlocks_noAdminExemption(isSystemRequest, slug, flags) ==
    checkPanic(slug, flags)

\* the panic-shield branch: non-admin traffic of a project under panic is blocked
panicBlocks(isSystemRequest, slug, flags) ==
    ~isSystemRequest /\ checkPanic(slug, flags)

\* the domain-locking branch
domainLocked(project, resolutionMethod, host, isSystemRequest) ==
    /\ project.custom_domain # ""
    /\ resolutionMethod = "slug"
    /\ LET isDev == Includes(host, "localhost") \/ Includes(host, "127.0.0.1")
       IN  ~isDev /\ ~isSystemRequest

resolveProject(q, flags) ==
    IF Includes(q.path, "/api/control/") \/ q.path = "/" \/ q.path = "/health"
    THEN ResolveOut(TRUE, 0, EmptyCtx, "", FALSE)
    ELSE
    LET host == q.host
        bearerToken == BearerOf(q)
        isSystemRequest ==
            bearerToken # "" /\ JwtVerify(bearerToken, SYSTEM_JWT_SECRET)
        ctx0 == [EmptyCtx EXCEPT !.isSystemRequest = isSystemRequest,
                                 !.url = q.path]
        pathParts == Split(q.path, "/")
        slugFromUrl ==
            IF Len(pathParts) > 3 /\ pathParts[2] = "api" /\ pathParts[3] = "data"
            THEN pathParts[4] ELSE ""
        byDomain ==
            IF host # "" /\ ~Includes(host, "localhost") /\ ~Includes(host, "127.0.0.1")
            THEN {s \in Slugs : Projects[s].custom_domain = host}
            ELSE {}
        bySlug ==
            IF byDomain = {} /\ slugFromUrl # ""
            THEN {s \in Slugs : s = slugFromUrl}
            ELSE {}
        resolutionMethod ==
            IF byDomain # {} THEN "domain"
            ELSE IF bySlug # {} THEN "slug" ELSE "unknown"
        rows == IF byDomain # {} THEN byDomain ELSE bySlug
    IN  IF rows = {}
        THEN IF Includes(q.path, "/api/data/")
             THEN ResolveOut(FALSE, 404, ctx0, "", FALSE)
             ELSE ResolveOut(TRUE, 0, ctx0, "", FALSE)
        ELSE
        LET project == Projects[CHOOSE s \in rows : TRUE]
            isPanic == checkPanic(project.slug, flags)
            url == IF resolutionMethod = "domain" /\ ~StartsWith(q.path, "/api/data/")
                   THEN "/api/data/" \o project.slug \o q.path
                   ELSE q.path
            clientIp == q.clientIp
        IN  IF panicBlocks(isSystemRequest, project.slug, flags)
            THEN ResolveOut(FALSE, 503, ctx0, project.slug, isPanic)
            ELSE IF domainLocked(project, resolutionMethod, host, isSystemRequest)
            THEN ResolveOut(FALSE, 403, ctx0, project.slug, isPanic)
            ELSE IF clientIp \in project.blocklist
            THEN ResolveOut(FALSE, 403, [ctx0 EXCEPT !.url = url], project.slug, isPanic)
            ELSE ResolveOut(TRUE, 0,
                    [ctx0 EXCEPT
                        !.url = url,
                        !.project = project.slug,
                        !.projectPool =
                            PoolServiceGet(project.db_name,
                                targetConnectionString(project, q.method))],
                    project.slug, isPanic)

-----------------------------------------------------------------------------
(* cascataAuth: next / status / userRole / user for request q with the     *)
(* context ctx that resolveProject attached.                               *)

AuthOut(next, status, role, user) ==
    [next |-> next, status |-> status, userRole |-> role, user |-> user]

\* the control-plane branch (admin token, or the login / export exceptions)
controlPlaneAuth(q) ==
    IF \/ EndsWith(q.path, "/auth/login")
       \/ EndsWith(q.path, "/auth/verify")
       \/ Includes(q.path, "/system/ssl-check")
    THEN AuthOut(TRUE, 0, "", "")
    ELSE IF q.authorization = ""
    THEN IF Includes(q.path, "/export") /\ q.queryToken # ""
         THEN AuthOut(TRUE, 0, "", "")
         ELSE AuthOut(FALSE, 401, "", "")
    ELSE LET parts == Split(q.authorization, " ")
             token == IF Len(parts) >= 2 THEN parts[2] ELSE ""
         IN  IF JwtVerify(token, SYSTEM_JWT_SECRET)
             THEN AuthOut(TRUE, 0, "", "")
             ELSE AuthOut(FALSE, 401, "", "")

\* the paths that are let through as anon with no credential at all
authFlowAllowList(path) ==
    \/ Includes(path, "/auth/providers/")
    \/ Includes(path, "/auth/callback")
    \/ Includes(path, "/auth/v1/authorize")
    \/ Includes(path, "/auth/v1/callback")
    \/ Includes(path, "/auth/v1/verify")
    \/ Includes(path, "/auth/passwordless/")
    \/ Includes(path, "/auth/token/refresh")
    \/ Includes(path, "/auth/challenge")
    \/ Includes(path, "/auth/verify-challenge")

otherOpenPaths(path) ==
    \/ Includes(path, "/auth/users")
    \/ Includes(path, "/auth/token")
    \/ Includes(path, "/auth/v1/")
    \/ Includes(path, "/edge/")

\* as tenantAuth, with the apikey service-key test moved before the bearer
\* anon-key test
tenantAuth_apikeyFirst(isSystemRequest, bearerToken, apiKey, project, path) ==
    IF isSystemRequest THEN AuthOut(TRUE, 0, "service_role", "")
    ELSE IF bearerToken = project.service_key
    THEN AuthOut(TRUE, 0, "service_role", "")
    ELSE IF apiKey = project.service_key
    THEN AuthOut(TRUE, 0, "service_role", "")
    ELSE IF bearerToken = project.anon_key
    THEN AuthOut(TRUE, 0, "anon", "")
    ELSE IF bearerToken # "" /\ JwtVerify(bearerToken, project.jwt_secret)
    THEN AuthOut(TRUE, 0, "authenticated",
                 JwtDecode(bearerToken, project.jwt_secret))
    ELSE IF apiKey = project.anon_key
    THEN AuthOut(TRUE, 0, "anon", "")
    ELSE IF authFlowAllowList(path) \/ otherOpenPaths(path)
    THEN AuthOut(TRUE, 0, "anon", "")
    ELSE AuthOut(FALSE, 401, "", "")

\* as tenantAuth, with the final 401 replaced by the anon fallback the
\* "Fallback to anon" comment of the JWT branch suggests
tenantAuth_anonFallback(isSystemRequest, bearerToken, apiKey, project, path) ==
    IF isSystemRequest THEN AuthOut(TRUE, 0, "service_role", "")
    ELSE IF bearerToken = project.service_key
    THEN AuthOut(TRUE, 0, "service_role", "")
    ELSE IF bearerToken = project.anon_key
    THEN AuthOut(TRUE, 0, "anon", "")
    ELSE IF apiKey = project.service_key
    THEN AuthOut(TRUE, 0, "service_role", "")
    ELSE IF bearerToken # "" /\ JwtVerify(bearerToken, project.jwt_secret)
    THEN AuthOut(TRUE, 0, "authenticated",
                 JwtDecode(bearerToken, project.jwt_secret))
    ELSE AuthOut(TRUE, 0, "anon", "")

\* the credential cascade of a request with a project (first match returns)
tenantAuth(isSystemRequest, bearerToken, apiKey, project, path) ==
    IF isSystemRequest THEN AuthOut(TRUE, 0, "service_role", "")
    ELSE IF bearerToken = project.service_key
    THEN AuthOut(TRUE, 0, "service_role", "")
    ELSE IF bearerToken = project.anon_key
    THEN AuthOut(TRUE, 0, "anon", "")
    ELSE IF apiKey = project.service_key
    THEN AuthOut(TRUE, 0, "service_role", "")
    ELSE IF bearerToken # "" /\ JwtVerify(bearerToken, project.jwt_secret)
    THEN AuthOut(TRUE, 0, "authenticated",
                 JwtDecode(bearerToken, project.jwt_secret))
    ELSE IF apiKey = project.anon_key
    THEN AuthOut(TRUE, 0, "anon", "")
    ELSE IF authFlowAllowList(path)
    THEN AuthOut(TRUE, 0, "anon", "")
    ELSE IF otherOpenPaths(path)
    THEN AuthOut(TRUE, 0, "anon", "")
    ELSE AuthOut(FALSE, 401, "", "")

cascataAuth(q, ctx) ==
    IF Includes(q.path, "/api/control/")
    THEN controlPlaneAuth(q)
    ELSE IF ctx.project = ""
    THEN IF q.path = "/" \/ q.path = "/health"
         THEN AuthOut(TRUE, 0, "", "")
         ELSE AuthOut(FALSE, 404, "", "")
    ELSE tenantAuth(ctx.isSystemRequest, BearerOf(q), q.apikey,
                    Projects[ctx.project], ctx.url)

-----------------------------------------------------------------------------
(* DataController.runRawQuery: status answered and statements sent *)

RawSql == "select 1"

\* as runRawQuery, with the role test accepting every authenticated caller
runRawQuery_anyUser(userRole, pool) ==
    IF userRole = "anon" \/ userRole = ""
    THEN [status |-> 403, sent |-> {}]
    ELSE [status |-> 200, sent |-> {[sql |-> RawSql, pool |-> pool, role |-> userRole]}]

runRawQuery(userRole, pool) ==
    IF userRole # "service_role"
    THEN [status |-> 403, sent |-> {}]
    ELSE [status |-> 200, sent |-> {[sql |-> RawSql, pool |-> pool, role |-> userRole]}]

IsRawQueryRoute(q, ctx) ==
    q.method = "POST" /\ ctx.project # "" /\ EndsWith(ctx.url, "/query")

-----------------------------------------------------------------------------
(* More JavaScript: replace, trim, join, toLowerCase, parseInt *)

\* s.replace(/c/g, by) for a one-character c
RECURSIVE ReplaceAll(_, _, _)
ReplaceAll(s, c, by) ==
    IF s = "" THEN ""
    ELSE (IF SubSeq(s, 1, 1) = c THEN by ELSE SubSeq(s, 1, 1))
            \o ReplaceAll(SubSeq(s, 2, Len(s)), c, by)

\* s.replace(/[^allowed]/g, '')
RECURSIVE KeepChars(_, _)
KeepChars(s, allowed) ==
    IF s = "" THEN ""
    ELSE (IF IndexOf(allowed, SubSeq(s, 1, 1)) # 0 THEN SubSeq(s, 1, 1) ELSE "")
            \o KeepChars(SubSeq(s, 2, Len(s)), allowed)

RECURSIVE Trim(_)
Trim(s) ==
    IF s = "" THEN ""
    ELSE IF SubSeq(s, 1, 1) = " " THEN Trim(SubSeq(s, 2, Len(s)))
    ELSE IF SubSeq(s, Len(s), Len(s)) = " " THEN Trim(SubSeq(s, 1, Len(s) - 1))
    ELSE s

\* parts.join(sep)
RECURSIVE Join(_, _)
Join(parts, sep) ==
    IF Len(parts) = 0 THEN ""
    ELSE IF Len(parts) = 1 THEN parts[1]
    ELSE parts[1] \o sep \o Join(Tail(parts), sep)

UpperLetters == "ABCDEFGHIJKLMNOPQRSTUVWXYZ"

LowerLetters == "abcdefghijklmnopqrstuvwxyz"

Digits == "0123456789"

RECURSIVE ToLowerCase(_)
ToLowerCase(s) ==
    IF s = "" THEN ""
    ELSE LET c == SubSeq(s, 1, 1)
             i == IndexOf(UpperLetters, c)
         IN  (IF i # 0 THEN SubSeq(LowerLetters, i, i) ELSE c)
                \o ToLowerCase(SubSeq(s, 2, Len(s)))

IsDigits(s) == s # "" /\ \A i \in 1..Len(s) : IndexOf(Digits, SubSeq(s, i, i)) # 0

\* parseInt / Number of a string of decimal digits
RECURSIVE ParseInt(_)
ParseInt(s) ==
    IF s = "" THEN 0
    ELSE 10 * ParseInt(SubSeq(s, 1, Len(s) - 1))
            + (IndexOf(Digits, SubSeq(s, Len(s), Len(s))) - 1)

-----------------------------------------------------------------------------
(* PostgrestService.  A bound parameter is a scalar string or an array of  *)
(* strings; a query string is the sequence of its <<key, value>> pairs in  *)
(* Object.keys order; a JSON object is the sequence of its <<key, value>>  *)
(* pairs.                                                                  *)

Scalar(v) == [arr |-> FALSE, items |-> <<v>>]

Arr(vs) == [arr |-> TRUE, items |-> vs]

NoVal == [arr |-> FALSE, items |-> <<>>]

Ph(n) == "$" \o ToString(n)

\* `"${k.replace(/"/g, '""')}"`
QuoteIdent(k) == "\"" \o ReplaceAll(k, "\"", "\"\"") \o "\""

Filter(clause, hasVal, val) == [clause |-> clause, hasVal |-> hasVal, val |-> val]

\* strip one leading and one trailing double quote of an already trimmed item
stripEnds(t, lead, trail) ==
    SubSeq(t, IF lead THEN 2 ELSE 1, IF trail THEN Len(t) - 1 ELSE Len(t))

unquote(t) ==
    stripEnds(t, StartsWith(t, "\""), Len(t) >= 2 /\ EndsWith(t, "\""))

\* v.trim().replace(/^"|"$/g, '')
StripQuotes(v) == unquote(Trim(v))

RECURSIVE StripAll(_)
StripAll(items) ==
    IF Len(items) = 0 THEN <<>>
    ELSE <<StripQuotes(items[1])>> \o StripAll(Tail(items))

\* case 'in' once the parentheses are off
inFilter(cleanVal, column, p) ==
    IF Trim(cleanVal) = ""
    THEN Filter("1 = 0", FALSE, NoVal)
    ELSE Filter(column \o " = ANY(" \o p \o ")", TRUE, Arr(StripAll(Split(cleanVal, ","))))

\* case 'is'
isFilter(rawVal, column) ==
    IF rawVal = "null" THEN Filter(column \o " IS NULL", FALSE, NoVal)
    ELSE IF rawVal = "true" THEN Filter(column \o " IS TRUE", FALSE, NoVal)
    ELSE IF rawVal = "false" THEN Filter(column \o " IS FALSE", FALSE, NoVal)
    ELSE Filter("", FALSE, NoVal)

\* the switch (op) of parseFilter
opFilter(op, rawVal, value, column, p) ==
    CASE op = "eq"    -> Filter(column \o " = " \o p, TRUE, Scalar(rawVal))
      [] op = "neq"   -> Filter(column \o " != " \o p, TRUE, Scalar(rawVal))
      [] op = "gt"    -> Filter(column \o " > " \o p, TRUE, Scalar(rawVal))
      [] op = "gte"   -> Filter(column \o " >= " \o p, TRUE, Scalar(rawVal))
      [] op = "lt"    -> Filter(column \o " < " \o p, TRUE, Scalar(rawVal))
      [] op = "lte"   -> Filter(column \o " <= " \o p, TRUE, Scalar(rawVal))
      [] op = "like"  -> Filter(column \o " LIKE " \o p, TRUE,
                                Scalar(ReplaceAll(rawVal, "*", "%")))
      [] op = "ilike" -> Filter(column \o " ILIKE " \o p, TRUE,
                                Scalar(ReplaceAll(rawVal, "*", "%")))
      [] op = "is"    -> isFilter(rawVal, column)
      [] op = "in"    ->
            inFilter(IF StartsWith(rawVal, "(") /\ EndsWith(rawVal, ")")
                     THEN SubSeq(rawVal, 2, Len(rawVal) - 1)
                     ELSE rawVal,
                     column, p)
      [] op = "cs"    -> Filter(column \o " @> " \o p, TRUE, Scalar(rawVal))
      [] op = "cd"    -> Filter(column \o " <@ " \o p, TRUE, Scalar(rawVal))
      [] OTHER        -> Filter(column \o " = " \o p, TRUE, Scalar(value))

\* parseFilter once value.split('.') is done
partsFilter(parts, value, column, p) ==
    IF Len(parts) < 2
    THEN Filter(column \o " = " \o p, TRUE, Scalar(value))
    ELSE opFilter(parts[1], Join(Tail(parts), "."), value, column, p)

parseFilter(key, value, paramIndex) ==
    partsFilter(Split(value, "."), value,
                "\"" \o ReplaceAll(key, "\"", "") \o "\"", Ph(paramIndex))

\* the parameters the three filter loops skip
ReservedAll == {"select", "order", "limit", "offset", "on_conflict", "columns"}

ReservedMutation == {"select", "order", "limit", "offset"}

RECURSIVE Scalars(_)
Scalars(items) ==
    IF Len(items) = 0 THEN <<>>
    ELSE <<Scalar(items[1])>> \o Scalars(Tail(items))

\* the body of a filter loop for one key: acc.filters are the clauses,
\* acc.params the values array, acc.binds what each clause's placeholder was
\* meant to carry.  spread: an array value is pushed element by element (the
\* first loop) instead of as one parameter (the PATCH and DELETE loops).
filterStep(acc, f, skip, spread) ==
    IF skip \/ f.clause = "" THEN acc
    ELSE IF ~f.hasVal
    THEN [acc EXCEPT !.filters = Append(acc.filters, f.clause)]
    ELSE [filters |-> Append(acc.filters, f.clause),
          params  |-> acc.params \o
                        (IF spread /\ f.val.arr THEN Scalars(f.val.items)
                         ELSE <<f.val>>),
          binds   |-> Append(acc.binds, [ph |-> Len(acc.params) + 1, val |-> f.val])]

\* one of the Object.keys(query).forEach loops
RECURSIVE filterLoop(_, _, _, _)
filterLoop(query, reserved, spread, acc) ==
    IF Len(query) = 0 THEN acc
    ELSE filterLoop(Tail(query), reserved, spread,
            filterStep(acc,
                       parseFilter(query[1][1], query[1][2], Len(acc.params) + 1),
                       query[1][1] \in reserved, spread))

whereOf(filters) ==
    IF Len(filters) > 0 THEN "WHERE " \o Join(filters, " AND ") ELSE ""

RECURSIVE QueryParam(_, _)
QueryParam(query, name) ==
    IF Len(query) = 0 THEN ""
    ELSE IF query[1][1] = name THEN query[1][2]
    ELSE QueryParam(Tail(query), name)

\* "col" AS "alias"
aliasColumn(ca) == "\"" \o Trim(ca[1]) \o "\" AS \"" \o Trim(ca[2]) \o "\""

selectColumn(part) ==
    IF Includes(part, ":") /\ ~Includes(part, "::")
    THEN aliasColumn(Split(part, ":"))
    ELSE IF Includes(part, "(") \/ Includes(part, "->") \/ Includes(part, ".")
    THEN part
    ELSE "\"" \o part \o "\""

RECURSIVE selectColumns(_)
selectColumns(cols) ==
    IF Len(cols) = 0 THEN <<>>
    ELSE <<selectColumn(Trim(cols[1]))>> \o selectColumns(Tail(cols))

parseSelect(selectParam) ==
    IF selectParam = "" \/ selectParam = "*" \/ selectParam = "%2A" THEN "*"
    ELSE Join(selectColumns(Split(selectParam, ",")), ", ")

OrderColumnChars == LowerLetters \o UpperLetters \o Digits \o "_> -"

orderDir(cd) ==
    IF Len(cd) >= 2 /\ cd[2] # "" /\ ToLowerCase(cd[2]) = "desc" THEN "DESC" ELSE "ASC"

orderNulls(p) ==
    IF Includes(p, "nullslast") THEN " NULLS LAST"
    ELSE IF Includes(p, "nullsfirst") THEN " NULLS FIRST"
    ELSE ""

orderItem(p, cd) ==
    "\"" \o KeepChars(cd[1], OrderColumnChars) \o "\" " \o orderDir(cd) \o orderNulls(p)

RECURSIVE orderItems(_)
orderItems(parts) ==
    IF Len(parts) = 0 THEN <<>>
    ELSE <<orderItem(parts[1], Split(parts[1], "."))>> \o orderItems(Tail(parts))

parseOrder(orderParam) ==
    IF orderParam = "" THEN ""
    ELSE "ORDER BY " \o Join(orderItems(Split(orderParam, ",")), ", ")

Built(text, values, countQuery, binds) ==
    [ok |-> TRUE, error |-> "", text |-> text, values |-> values,
     countQuery |-> countQuery, binds |-> binds]

Thrown(message) ==
    [ok |-> FALSE, error |-> message, text |-> "", values |-> <<>>,
     countQuery |-> "", binds |-> <<>>]

NoAcc == [filters |-> <<>>, params |-> <<>>, binds |-> <<>>]

\* headers['range'].match(/(\d+)-(\d+)?/) on a header "start-end" or "start-":
\* the OFFSET and LIMIT clauses it gives
rangeOffset(se) ==
    IF Len(se) < 2 \/ ~IsDigits(se[1]) THEN ""
    ELSE "OFFSET " \o ToString(ParseInt(se[1]))

rangeLimit(se) ==
    IF Len(se) < 2 \/ ~IsDigits(se[1]) \/ ~IsDigits(se[2]) THEN ""
    ELSE "LIMIT " \o ToString(ParseInt(se[2]) - ParseInt(se[1]) + 1)

prefers(headers, flag) == headers.prefer # "" /\ Includes(headers.prefer, flag)

\* method GET, given the clauses and values of the first filter loop
buildSelect(safeTable, whereClause, query, headers, acc) ==
    Built("SELECT " \o parseSelect(QueryParam(query, "select"))
            \o " FROM public." \o safeTable \o " " \o whereClause
            \o " " \o parseOrder(QueryParam(query, "order"))
            \o " " \o (IF QueryParam(query, "limit") # ""
                       THEN "LIMIT " \o ToString(ParseInt(QueryParam(query, "limit")))
                       ELSE rangeLimit(Split(headers.range, "-")))
            \o " " \o (IF QueryParam(query, "offset") # ""
                       THEN "OFFSET " \o ToString(ParseInt(QueryParam(query, "offset")))
                       ELSE rangeOffset(Split(headers.range, "-"))),
          acc.params,
          IF prefers(headers, "count=exact")
          THEN "SELECT COUNT(*) as total FROM public." \o safeTable \o " " \o whereClause
          ELSE "",
          acc.binds)

RowGet(row, k) == QueryParam(row, k)

RECURSIVE RowKeys(_)
RowKeys(row) ==
    IF Len(row) = 0 THEN <<>> ELSE <<row[1][1]>> \o RowKeys(Tail(row))

\* one row's placeholders, values and intended bindings, from paramIdx on
RECURSIVE rowGroup(_, _, _, _)
rowGroup(row, keys, paramIdx, acc) ==
    IF Len(keys) = 0 THEN acc
    ELSE rowGroup(row, Tail(keys), paramIdx + 1,
            [phs    |-> Append(acc.phs, Ph(paramIdx)),
             params |-> Append(acc.params, Scalar(RowGet(row, keys[1]))),
             binds  |-> Append(acc.binds,
                           [ph |-> paramIdx, val |-> Scalar(RowGet(row, keys[1]))])])

addGroup(acc, g) ==
    [groups |-> Append(acc.groups, "(" \o Join(g.phs, ", ") \o ")"),
     params |-> g.params,
     binds  |-> g.binds]

\* the VALUES groups of an INSERT: placeholders count from 1, whatever the
\* params array already holds
RECURSIVE insertGroups(_, _, _, _)
insertGroups(rows, keys, paramIdx, acc) ==
    IF Len(rows) = 0 THEN acc
    ELSE insertGroups(Tail(rows), keys, paramIdx + Len(keys),
            addGroup(acc, rowGroup(rows[1], keys, paramIdx,
                        [phs |-> <<>>, params |-> acc.params, binds |-> acc.binds])))

RECURSIVE excludedSet(_)
excludedSet(keys) ==
    IF Len(keys) = 0 THEN <<>>
    ELSE <<QuoteIdent(keys[1]) \o " = EXCLUDED." \o QuoteIdent(keys[1])>>
            \o excludedSet(Tail(keys))

RECURSIVE quotedKeys(_)
quotedKeys(keys) ==
    IF Len(keys) = 0 THEN <<>>
    ELSE <<QuoteIdent(keys[1])>> \o quotedKeys(Tail(keys))

upsertClause(query, headers, keys) ==
    IF prefers(headers, "resolution=merge-duplicates")
    THEN "ON CONFLICT ("
          \o (IF QueryParam(query, "on_conflict") # ""
              THEN QuoteIdent(QueryParam(query, "on_conflict"))
              ELSE "\"id\"")
          \o ") DO UPDATE SET " \o Join(excludedSet(keys), ", ")
    ELSE IF prefers(headers, "resolution=ignore-duplicates")
    THEN "ON CONFLICT DO NOTHING"
    ELSE ""

insertText(safeTable, query, headers, keys, ins) ==
    Built("INSERT INTO public." \o safeTable \o " (" \o Join(quotedKeys(keys), ", ")
            \o ") VALUES " \o Join(ins.groups, ", ") \o " "
            \o upsertClause(query, headers, keys) \o " "
            \o (IF prefers(headers, "return=minimal") THEN "" ELSE "RETURNING *"),
          ins.params, "", ins.binds)

\* method POST
buildInsert(safeTable, query, rows, headers, acc) ==
    IF Len(rows) = 0 THEN Thrown("No data to insert")
    ELSE insertText(safeTable, query, headers, RowKeys(rows[1]),
            insertGroups(rows, RowKeys(rows[1]), 1,
                [groups |-> <<>>, params |-> acc.params, binds |-> <<>>]))

\* the SET clauses of an UPDATE
RECURSIVE setClauses(_, _)
setClauses(row, acc) ==
    IF Len(row) = 0 THEN acc
    ELSE setClauses(Tail(row),
            [filters |-> Append(acc.filters,
                            QuoteIdent(row[1][1]) \o " = " \o Ph(Len(acc.params) + 1)),
             params  |-> Append(acc.params, Scalar(row[1][2])),
             binds   |-> Append(acc.binds,
                            [ph |-> Len(acc.params) + 1, val |-> Scalar(row[1][2])])])

updateText(safeTable, headers, setList, upd) ==
    IF whereOf(upd.filters) = ""
    THEN Thrown("UPDATE requires a filter (e.g. ?id=eq.1)")
    ELSE Built("UPDATE public." \o safeTable \o " SET " \o Join(setList, ", ")
                \o " " \o whereOf(upd.filters) \o " "
                \o (IF prefers(headers, "return=representation")
                    THEN "RETURNING *" ELSE ""),
               upd.params, "", upd.binds)

updateWith(safeTable, query, headers, set) ==
    updateText(safeTable, headers, set.filters,
        filterLoop(query, ReservedMutation, FALSE,
            [filters |-> <<>>, params |-> set.params, binds |-> set.binds]))

\* method PATCH
buildUpdate(safeTable, query, obj, headers, acc) ==
    IF Len(obj) = 0 THEN Thrown("No data to update")
    ELSE updateWith(safeTable, query, headers,
            setClauses(obj, [filters |-> <<>>, params |-> acc.params, binds |-> <<>>]))

deleteText(safeTable, headers, del) ==
    IF whereOf(del.filters) = ""
    THEN Thrown("DELETE requires a filter (e.g. ?id=eq.1)")
    ELSE Built("DELETE FROM public." \o safeTable \o " " \o whereOf(del.filters)
                \o " "
                \o (IF prefers(headers, "return=representation")
                    THEN "RETURNING *" ELSE ""),
               del.params, "", del.binds)

\* method DELETE
buildDelete(safeTable, query, headers, acc) ==
    deleteText(safeTable, headers,
        filterLoop(query, ReservedMutation, FALSE,
            [filters |-> <<>>, params |-> acc.params, binds |-> <<>>]))

\* the method switch, given the outcome of the first filter loop
buildFor(safeTable, method, query, body, headers, acc) ==
    CASE method = "GET"    -> buildSelect(safeTable, whereOf(acc.filters), query, headers, acc)
      [] method = "POST"   -> buildInsert(safeTable, query, body.rows, headers, acc)
      [] method = "PATCH"  ->
            buildUpdate(safeTable, query,
                IF Len(body.rows) = 0 THEN <<>> ELSE body.rows[1], headers, acc)
      [] method = "DELETE" -> buildDelete(safeTable, query, headers, acc)
      [] OTHER             -> Built("", acc.params, "", acc.binds)

buildQuery(tableName, method, query, body, headers) ==
    buildFor(QuoteIdent(tableName), method, query, body, headers,
             filterLoop(query, ReservedAll, TRUE, NoAcc))

-----------------------------------------------------------------------------
(* Calls of buildQuery *)

NoCall == [tableName |-> "", method |-> "", query |-> <<>>,
           body |-> [array |-> FALSE, rows |-> <<>>],
           headers |-> [range |-> "", prefer |-> ""]]

NoResult == [ok |-> FALSE, error |-> "none", text |-> "", values |-> <<>>,
             countQuery |-> "", binds |-> <<>>]

\* the query parameters a call is made of
QueryPairs ==
    { <<"id", "eq.1">>, <<"id", "in.(1,2)">>, <<"id", "in.()">>, <<"id", "in.(7)">>,
      <<"name", "like.a*">>, <<"name", "is.null">>, <<"name", "is.maybe">>,
      <<"tag", "v1">>, <<"tag", "x.y">>,
      <<"select", "id,name">>, <<"order", "name.desc">>, <<"limit", "5">>,
      <<"columns", "id">>, <<"on_conflict", "id">> }

\* the number of parameters of a query string
MaxQueryParams == 2

RECURSIVE QueriesOf(_)
QueriesOf(n) ==
    IF n = 0 THEN {<<>>}
    ELSE LET shorter == QueriesOf(n - 1)
         IN  shorter \cup
             { Append(q, kv) : q \in {x \in shorter : Len(x) = n - 1}, kv \in QueryPairs }

DistinctKeys(q) == \A i, j \in 1..Len(q) : i # j => q[i][1] # q[j][1]

Queries == {q \in QueriesOf(MaxQueryParams) : DistinctKeys(q)}

Bodies ==
    { [array |-> FALSE, rows |-> <<>>],
      [array |-> FALSE, rows |-> << <<  <<"name", "AA">>  >> >>],
      [array |-> TRUE,  rows |-> << << <<"name", "A">>, <<"n", "1">> >>,
                                    << <<"name", "B">>, <<"n", "2">> >> >>],
      [array |-> TRUE,  rows |-> <<>>] }

BodiesOf(method) ==
    CASE method = "POST"  -> {b \in Bodies : b.array \/ Len(b.rows) = 1}
      [] method = "PATCH" -> {b \in Bodies : ~b.array}
      [] OTHER            -> {[array |-> FALSE, rows |-> <<>>]}

HeadersOf(method) ==
    CASE method = "GET"  -> {[range |-> "", prefer |-> ""],
                             [range |-> "0-9", prefer |-> "count=exact"]}
      [] method = "POST" -> {[range |-> "", prefer |-> ""],
                             [range |-> "", prefer |-> "resolution=merge-duplicates"]}
      [] OTHER           -> {[range |-> "", prefer |-> ""],
                             [range |-> "", prefer |-> "return=representation"]}

PgIdle == pgIn = NoCall /\ pgOut = NoResult

BuildQuery ==
    /\ pgIn = NoCall
    /\ \E method \in {"GET", "POST", "PATCH", "DELETE"} :
       \E query \in Queries :
       \E body \in BodiesOf(method) :
       \E headers \in HeadersOf(method) :
          /\ pgIn' = [tableName |-> "customers", method |-> method, query |-> query,
                      body |-> body, headers |-> headers]
          /\ pgOut' = buildQuery("customers", method, query, body, headers)
    /\ UNCHANGED notPgVars

PgReturn ==
    /\ pgIn # NoCall
    /\ pgIn' = NoCall
    /\ pgOut' = NoResult
    /\ UNCHANGED notPgVars

-----------------------------------------------------------------------------
(* The webhook job engine: QueueService and the webhook admin handlers *)

\* JSON.stringify of a string
JsonString(s) == "\"" \o ReplaceAll(s, "\"", "\\\"") \o "\""

RECURSIVE JsonMembers(_)
JsonMembers(pairs) ==
    IF Len(pairs) = 0 THEN <<>>
    ELSE <<JsonString(pairs[1][1]) \o ":" \o pairs[1][2]>> \o JsonMembers(Tail(pairs))

\* JSON.stringify of an object given as <<key, JSON text of the value>> pairs
JsonStringify(pairs) == "{" \o Join(JsonMembers(pairs), ",") \o "}"

\* crypto.createHmac('sha256', key).update(msg).digest('hex'): the digest is
\* kept symbolic, one digest per (key, message)
Hmac(key, msg) == [alg |-> "sha256", key |-> key, msg |-> msg]

\* the text of s before the first occurrence of the character c
Before(s, c) == IF IndexOf(s, c) = 0 THEN s ELSE SubSeq(s, 1, IndexOf(s, c) - 1)

afterScheme(u) ==
    IF StartsWith(u, "https://") THEN SubSeq(u, 9, Len(u))
    ELSE IF StartsWith(u, "http://") THEN SubSeq(u, 8, Len(u))
    ELSE u

\* the host of host[:port]; an IPv6 literal keeps its square brackets
hostOf(authority) ==
    IF StartsWith(authority, "[")
    THEN SubSeq(authority, 1, IndexOf(authority, "]"))
    ELSE Before(authority, ":")

\* new URL(targetUrl).hostname
hostnameOf(targetUrl) == hostOf(Before(afterScheme(targetUrl), "/"))

\* parts.map(Number), NaN being -1
RECURSIVE Numbers(_)
Numbers(parts) ==
    IF Len(parts) = 0 THEN <<>>
    ELSE <<IF parts[1] = "" THEN 0
           ELSE IF IsDigits(parts[1]) THEN ParseInt(parts[1]) ELSE -1>>
            \o Numbers(Tail(parts))

privateV4(parts) ==
    IF Len(parts) # 4 THEN FALSE
    ELSE \/ parts[1] = 0
         \/ parts[1] = 10
         \/ parts[1] = 127
         \/ parts[1] = 169 /\ parts[2] = 254
         \/ parts[1] = 172 /\ parts[2] >= 16 /\ parts[2] <= 31
         \/ parts[1] = 192 /\ parts[2] = 168

privateV6(ip, lower) ==
    \/ ip = "::1" \/ ip = "::"
    \/ StartsWith(lower, "fc") \/ StartsWith(lower, "fd")
    \/ StartsWith(lower, "fe80")

isPrivateIP(ip) ==
    IF Includes(ip, ".") THEN privateV4(Numbers(Split(ip, ".")))
    ELSE IF Includes(ip, ":") THEN privateV6(ip, ToLowerCase(ip))
    ELSE FALSE

internalServices ==
    {"redis", "db", "backend_control", "backend_data", "nginx", "nginx_controller"}

\* /^(\d{1,3}\.){3}\d{1,3}$/.test(hostname)
dottedQuad(parts) ==
    /\ Len(parts) = 4
    /\ \A i \in 1..Len(parts) : IsDigits(parts[i]) /\ Len(parts[i]) <= 3

isIp(hostname) == dottedQuad(Split(hostname, ".")) \/ Includes(hostname, ":")

\* what dns.lookup answered when the name does not resolve
DnsFailure == <<"ENOTFOUND">>

\* the for (const ip of ips) loop: the message of the first private address
RECURSIVE firstPrivate(_, _)
firstPrivate(hostname, ips) ==
    IF Len(ips) = 0 THEN ""
    ELSE IF isPrivateIP(ips[1])
    THEN "Security Violation: Host " \o hostname \o " resolves to private IP "
            \o ips[1] \o ". Webhook blocked."
    ELSE firstPrivate(hostname, Tail(ips))

checkHost(hostname, records) ==
    IF hostname = "localhost" \/ hostname = "::1" \/ hostname = "0.0.0.0"
    THEN "Blocked: localhost access denied"
    ELSE IF hostname \in internalServices
    THEN "Blocked: Internal service access denied"
    ELSE IF isIp(hostname) THEN firstPrivate(hostname, <<hostname>>)
    ELSE IF records = DnsFailure THEN "DNS Resolution failed for " \o hostname
    ELSE firstPrivate(hostname, records)

rethrown(message) == IF message = "" THEN "" ELSE "SSRF Protection: " \o message

\* validateTarget: "" when it returns, else the message of the error it
\* throws; records is what dns.lookup answers for the hostname
validateTarget(targetUrl, records) == rethrown(checkHost(hostnameOf(targetUrl), records))

\* addWebhookJob: the job as queue.add stores it
addWebhookJob(data) ==
    [id |-> "1", data |-> data,
     opts |-> IF data.retryPolicy = "none"
              THEN [attempts |-> 1, backoff |-> [type |-> "exponential", delay |-> 1000]]
              ELSE IF data.retryPolicy = "linear"
              THEN [attempts |-> 5, backoff |-> [type |-> "fixed", delay |-> 5000]]
              ELSE [attempts |-> 10, backoff |-> [type |-> "exponential", delay |-> 1000]],
     attemptsMade |-> 0, state |-> "waiting", returnvalue |-> ""]

NoData == [targetUrl |-> "", payload |-> <<>>, secret |-> "", eventType |-> "",
           tableName |-> "", fallbackUrl |-> "", retryPolicy |-> ""]

NoJob == [id |-> "", data |-> NoData,
          opts |-> [attempts |-> 0, backoff |-> [type |-> "", delay |-> 0]],
          attemptsMade |-> 0, state |-> "none", returnvalue |-> ""]

\* WebhookService.dispatch for one matching webhook row: the job data it
\* hands to addWebhookJob
dispatch(row, payload, secret) ==
    [targetUrl |-> row.target_url, payload |-> payload, secret |-> secret,
     eventType |-> row.event_type, tableName |-> row.table_name,
     fallbackUrl |-> row.fallback_url, retryPolicy |-> row.retry_policy]

signature_keyless(secret, payload) == Hmac("", JsonStringify(payload))

\* the X-Cascata-Signature header value
signature(secret, payload) == Hmac(secret, JsonStringify(payload))

\* the axios.post to the target
deliveryPost(data) ==
    [kind |-> "target", url |-> data.targetUrl, body |-> JsonStringify(data.payload),
     signature |-> signature(data.secret, data.payload),
     event |-> data.eventType, table |-> data.tableName,
     userAgent |-> "Cascata-Webhook-Engine/2.2"]

\* what the target answers: an HTTP status with a body, or no response at all
\* (status 0); message is the message of the error axios throws
Outcomes ==
    { [status |-> 200, data |-> "ok", message |-> ""],
      [status |-> 500, data |-> "oops", message |-> "Request failed with status code 500"],
      [status |-> 404, data |-> "gone", message |-> "Request failed with status code 404"],
      [status |-> 0, data |-> "", message |-> "timeout of 10000ms exceeded"] }

errorMsg(outcome) ==
    IF outcome.status # 0
    THEN "HTTP " \o ToString(outcome.status) \o ": " \o JsonString(outcome.data)
    ELSE outcome.message

isLastAttempt_always(j) == TRUE

isLastAttempt(j) ==
    j.attemptsMade >= (IF j.opts.attempts = 0 THEN 1 ELSE j.opts.attempts) - 1

alertPayload(data, message) ==
    << <<"alert", JsonString("Webhook Delivery Failed (Final)")>>,
       <<"original_target", JsonString(data.targetUrl)>>,
       <<"error", JsonString(message)>>,
       <<"event", JsonString(data.eventType)>>,
       <<"table", JsonString(data.tableName)>>,
       <<"failed_at", JsonString("now")>>,
       <<"original_payload", JsonStringify(data.payload)>> >>

alertPost(data, message) ==
    [kind |-> "fallback", url |-> data.fallbackUrl,
     body |-> JsonStringify(alertPayload(data, message)),
     signature |-> Hmac("", ""), event |-> "", table |-> "",
     userAgent |-> "Cascata-Alert-System"]

NoEffects == [posts |-> <<>>, logs |-> <<>>]

fallbackWarn(j) ==
    "[Queue:Webhook] Triggering Fallback Alert for job " \o j.id \o " -> "
        \o j.data.fallbackUrl

\* the fallback trigger: fbCheck is what validateTarget(fallbackUrl) threw
fallbackAlert(j, message, fbCheck, fbOutcome) ==
    IF ~(isLastAttempt(j) /\ j.data.fallbackUrl # "") THEN NoEffects
    ELSE IF fbCheck # ""
    THEN [posts |-> <<>>,
          logs  |-> <<fallbackWarn(j), "[Queue:Webhook] Fallback FAILED: " \o fbCheck>>]
    ELSE IF fbOutcome.status = 200
    THEN [posts |-> <<alertPost(j.data, message)>>,
          logs  |-> <<fallbackWarn(j), "[Queue:Webhook] Fallback alert sent successfully.">>]
    ELSE [posts |-> <<alertPost(j.data, message)>>,
          logs  |-> <<fallbackWarn(j),
                      "[Queue:Webhook] Fallback FAILED: " \o fbOutcome.message>>]

processingLog(j) ==
    "[Queue:Webhook] Processing job " \o j.id \o " -> " \o j.data.targetUrl
        \o " (Attempt " \o ToString(j.attemptsMade + 1) \o "/"
        \o ToString(j.opts.attempts) \o ")"

\* the catch block of the processor
deliveryFailed(j, outcome, fb) ==
    [returned |-> "", threw |-> outcome.message,
     posts |-> <<deliveryPost(j.data)>> \o fb.posts,
     logs  |-> <<processingLog(j),
                 "[Queue:Webhook] Failed job " \o j.id \o ": " \o errorMsg(outcome)>>
                \o fb.logs]

\* the processor of the webhook worker for one attempt: check is what
\* validateTarget(targetUrl) threw, outcome what the target answered
processJob(j, check, outcome, fbCheck, fbOutcome) ==
    IF check # ""
    THEN [returned |-> "", threw |-> check, posts |-> <<>>, logs |-> <<>>]
    ELSE IF outcome.status = 200
    THEN [returned |-> "sent", threw |-> "",
          posts |-> <<deliveryPost(j.data)>>, logs |-> <<processingLog(j)>>]
    ELSE deliveryFailed(j, outcome,
            fallbackAlert(j, errorMsg(outcome), fbCheck, fbOutcome))

\* what the queue does with the job once the processor returned or threw
settle(j, result) ==
    [j EXCEPT !.attemptsMade = @ + 1,
                !.returnvalue = result.returned,
                !.state = IF result.threw = "" THEN "completed"
                          ELSE IF j.attemptsMade + 1 >= j.opts.attempts THEN "failed"
                          ELSE "delayed"]

\* system.webhooks rows
WebhookRow(id, slug, body, secret) ==
    [id |-> id, project_slug |-> slug, target_url |-> body.target_url,
     event_type |-> body.event_type, table_name |-> body.table_name,
     secret_header |-> secret, filters |-> "[]", fallback_url |-> body.fallback_url,
     retry_policy |-> IF body.retry_policy = "" THEN "standard" ELSE body.retry_policy,
     is_active |-> TRUE]

\* res.json(row)
RowJson(row) ==
    JsonStringify(<< <<"id", ToString(row.id)>>,
                     <<"project_slug", JsonString(row.project_slug)>>,
                     <<"target_url", JsonString(row.target_url)>>,
                     <<"event_type", JsonString(row.event_type)>>,
                     <<"table_name", JsonString(row.table_name)>>,
                     <<"secret_header", JsonString(row.secret_header)>>,
                     <<"filters", row.filters>>,
                     <<"fallback_url",
                       IF row.fallback_url = "" THEN "null"
                       ELSE JsonString(row.fallback_url)>>,
                     <<"retry_policy", JsonString(row.retry_policy)>>,
                     <<"is_active", "true">> >>)

RECURSIVE RowsJson(_)
RowsJson(rows) ==
    IF Len(rows) = 0 THEN <<>> ELSE <<RowJson(rows[1])>> \o RowsJson(Tail(rows))

\* the environment: name resolution, the requests of the dashboard
DnsLookup(hostname) ==
    CASE hostname = "hooks.example.com"   -> {<<"93.184.216.34">>, DnsFailure}
      [] hostname = "alerts.example.com"  -> {<<"93.184.216.35">>}
      [] hostname = "intranet.example.com" -> {<<"192.168.1.10">>}
      [] hostname = "printer.example.com" -> {<<"fe90::1">>}
      [] OTHER                            -> {DnsFailure}

WebhookBody(target_url, fallback_url, retry_policy) ==
    [target_url |-> target_url, event_type |-> "INSERT", table_name |-> "orders",
     fallback_url |-> fallback_url, retry_policy |-> retry_policy]

WebhookBodies ==
    { WebhookBody("http://hooks.example.com/in", "", "none"),
      WebhookBody("http://hooks.example.com/in", "http://alerts.example.com/a", ""),
      WebhookBody("https://hooks.example.com/in", "http://10.0.0.9/alert", "linear"),
      WebhookBody("http://10.0.0.5/", "", "none"),
      WebhookBody("http://localhost:8080/x", "", "none"),
      WebhookBody("http://redis:6379/", "", "none"),
      WebhookBody("http://intranet.example.com/hook", "http://alerts.example.com/a", "none"),
      WebhookBody("http://[::1]/hook", "", "none"),
      WebhookBody("http://printer.example.com/", "", "none") }

\* req.body.payload of a test dispatch, <<>> when the body has none
TestPayloads == { <<>>, << <<"id", "7">> >> }

\* the keys generateKey can return
Keys == {"jws_acme", "jws_rotated"}

NoHook == WebhookRow(0, "", WebhookBody("", "", "none"), "")

NoAttempt == [targetUrl |-> "", records |-> <<>>, posts |-> <<>>, error |-> ""]

NoOutcome == [status |-> 0, data |-> "", message |-> ""]

HookIdle ==
    /\ projSecret = Projects["acme"].jwt_secret
    /\ hook = NoHook
    /\ job = NoJob
    /\ outbox = <<>>
    /\ logs = <<>>
    /\ httpRes = ""
    /\ attempt = NoAttempt

\* AdminController.createWebhook, for the row that gets id 1
CreateWebhook ==
    /\ hook = NoHook
    /\ \E body \in WebhookBodies :
          /\ hook' = WebhookRow(1, "acme", body, projSecret)
          /\ httpRes' = RowJson(WebhookRow(1, "acme", body, projSecret))
    /\ logs' = <<>>
    /\ UNCHANGED <<projSecret, job, outbox, attempt>>
    /\ UNCHANGED notHookVars

\* AdminController.listWebhooks
ListWebhooks ==
    /\ httpRes' = "[" \o Join(RowsJson(IF hook = NoHook THEN <<>> ELSE <<hook>>), ",")
                      \o "]"
    /\ logs' = <<>>
    /\ UNCHANGED <<projSecret, hook, job, outbox, attempt>>
    /\ UNCHANGED notHookVars

\* AdminController.rotateKeys with type 'jwt'
RotateKeys ==
    /\ \E key \in Keys \ {projSecret} : projSecret' = key
    /\ httpRes' = JsonStringify(<< <<"success", "true">> >>)
    /\ logs' = <<>>
    /\ UNCHANGED <<hook, job, outbox, attempt>>
    /\ UNCHANGED notHookVars

\* AdminController.testWebhook: the dispatch of a test event for the webhook
TestWebhook ==
    /\ hook # NoHook
    /\ job = NoJob
    /\ \E payload \in TestPayloads :
          job' = addWebhookJob(
                    dispatch(hook,
                             IF payload = <<>> THEN << <<"test", "true">> >> ELSE payload,
                             projSecret))
    /\ httpRes' = JsonStringify(<< <<"success", "true">> >>)
    /\ outbox' = <<>>
    /\ logs' = <<>>
    /\ attempt' = NoAttempt
    /\ UNCHANGED <<projSecret, hook>>
    /\ UNCHANGED notHookVars

Attempted(result, records) ==
    /\ job' = settle(job, result)
    /\ outbox' = outbox \o result.posts
    /\ logs' = result.logs
    /\ httpRes' = ""
    /\ attempt' = [targetUrl |-> job.data.targetUrl, records |-> records,
                   posts |-> result.posts, error |-> result.threw]

\* the processor reaches the fallback trigger
FallbackDue(outcome) ==
    outcome.status # 200 /\ isLastAttempt(job) /\ job.data.fallbackUrl # ""

\* the answers of the network are drawn where the processor asks for them
Processed(check, records) ==
    \/ /\ check # ""
       /\ Attempted(processJob(job, check, NoOutcome, "", NoOutcome), records)
    \/ /\ check = ""
       /\ \E outcome \in Outcomes :
             \/ /\ ~FallbackDue(outcome)
                /\ Attempted(processJob(job, "", outcome, "", NoOutcome), records)
             \/ /\ FallbackDue(outcome)
                /\ \E fbRecords \in DnsLookup(hostnameOf(job.data.fallbackUrl)) :
                   \E fbOutcome \in Outcomes :
                      Attempted(processJob(job, "", outcome,
                                    validateTarget(job.data.fallbackUrl, fbRecords),
                                    fbOutcome),
                                records)

\* one run of the worker's processor on the waiting job
WorkerAttempt ==
    /\ job.state = "waiting"
    /\ \E records \in DnsLookup(hostnameOf(job.data.targetUrl)) :
          Processed(validateTarget(job.data.targetUrl, records), records)
    /\ UNCHANGED <<projSecret, hook>>
    /\ UNCHANGED notHookVars

\* the backoff delay of a failed attempt has passed
BackoffElapsed ==
    /\ job.state = "delayed"
    /\ job' = [job EXCEPT !.state = "waiting"]
    /\ logs' = <<>>
    /\ httpRes' = ""
    /\ UNCHANGED <<projSecret, hook, outbox, attempt>>
    /\ UNCHANGED notHookVars

\* removeOnComplete / removeOnFail: the finished job leaves the queue
RemoveJob ==
    /\ job.state \in {"completed", "failed"}
    /\ job' = NoJob
    /\ outbox' = <<>>
    /\ logs' = <<>>
    /\ httpRes' = ""
    /\ attempt' = NoAttempt
    /\ UNCHANGED <<projSecret, hook>>
    /\ UNCHANGED notHookVars

HookNext ==
    \/ CreateWebhook
    \/ ListWebhooks
    \/ RotateKeys
    \/ TestWebhook
    \/ WorkerAttempt
    \/ BackoffElapsed
    \/ RemoveJob

\* the later versions of addWebhookJob in the same file: the one that passes
\* only { attempts } to queue.add (the queue has no default attempts or
\* backoff, so a failed attempt is retried without delay), and the one that
\* passes no options and leaves the job to the queue's defaultJobOptions
NoBackoff == [type |-> "", delay |-> 0]

addWebhookJobLater(data) ==
    [id |-> "1", data |-> data,
     opts |-> [attempts |-> IF data.retryPolicy = "none" THEN 1
                            ELSE IF data.retryPolicy = "linear" THEN 5 ELSE 10,
               backoff |-> NoBackoff],
     attemptsMade |-> 0, state |-> "waiting", returnvalue |-> ""]

addWebhookJobDefaults(data) ==
    [id |-> "1", data |-> data,
     opts |-> [attempts |-> 5, backoff |-> [type |-> "exponential", delay |-> 1000]],
     attemptsMade |-> 0, state |-> "waiting", returnvalue |-> ""]

\* the retry policies a dispatch can carry: the webhook row's, or none at all
\* (a caller that builds the job data without one)
Policies == {"", "none", "linear", "standard"}

Enqueued(j) ==
    /\ job' = j
    /\ httpRes' = ""
    /\ outbox' = <<>>
    /\ logs' = <<>>
    /\ attempt' = NoAttempt
    /\ UNCHANGED <<projSecret, hook>>
    /\ UNCHANGED notHookVars

JobData(policy, payload) ==
    [dispatch(hook, payload, projSecret) EXCEPT !.retryPolicy = policy]

\* a dispatch enqueued through each version of addWebhookJob
AddWebhookJob ==
    /\ hook # NoHook /\ job = NoJob
    /\ \E policy \in Policies, payload \in TestPayloads :
          Enqueued(addWebhookJob(JobData(policy, payload)))

AddWebhookJobLater ==
    /\ hook # NoHook /\ job = NoJob
    /\ \E policy \in Policies, payload \in TestPayloads :
          Enqueued(addWebhookJobLater(JobData(policy, payload)))

AddWebhookJobDefaults ==
    /\ hook # NoHook /\ job = NoJob
    /\ \E policy \in Policies, payload \in TestPayloads :
          Enqueued(addWebhookJobDefaults(JobData(policy, payload)))

\* the job is taken off the queue
Dequeue ==
    /\ job # NoJob
    /\ job' = NoJob
    /\ httpRes' = ""
    /\ UNCHANGED <<projSecret, hook, outbox, logs, attempt>>
    /\ UNCHANGED notHookVars

QueueNext ==
    \/ CreateWebhook
    \/ AddWebhookJob
    \/ AddWebhookJobLater
    \/ AddWebhookJobDefaults
    \/ Dequeue

-----------------------------------------------------------------------------
(* PoolService: the registry of tenant connection pools *)

\* the characters of code 32 to 95, in code order
AsciiChars ==
    " !\"#$%&'()*+,-./0123456789:;<=>?@ABCDEFGHIJKLMNOPQRSTUVWXYZ[\\]^_"

\* the characters 97..126 (96, the backquote, occurs in no key or URL here)
AsciiLetters == "abcdefghijklmnopqrstuvwxyz{|}~"

CodeOf ==
    [c \in {SubSeq(AsciiChars, i, i) : i \in 1..Len(AsciiChars)} |->
        31 + CHOOSE i \in 1..Len(AsciiChars) : SubSeq(AsciiChars, i, i) = c]
    @@ [c \in {SubSeq(AsciiLetters, i, i) : i \in 1..Len(AsciiLetters)} |->
        96 + CHOOSE i \in 1..Len(AsciiLetters) : SubSeq(AsciiLetters, i, i) = c]

\* the byte of Buffer.from(s) at position i, 0 past the end
ByteAt(s, i) == IF i <= Len(s) THEN CodeOf[SubSeq(s, i, i)] ELSE 0

Base64Chars == "ABCDEFGHIJKLMNOPQRSTUVWXYZabcdefghijklmnopqrstuvwxyz0123456789+/"

Base64Char(n) == SubSeq(Base64Chars, n + 1, n + 1)

\* the four characters three bytes are written as; n is the number of bytes left
encode3(b1, b2, b3, n) ==
    Base64Char(b1 \div 4)
        \o Base64Char((b1 % 4) * 16 + b2 \div 16)
        \o (IF n >= 2 THEN Base64Char((b2 % 16) * 4 + b3 \div 64) ELSE "=")
        \o (IF n >= 3 THEN Base64Char(b3 % 64) ELSE "=")

\* Buffer.from(s).toString('base64')
RECURSIVE Base64(_)
Base64(s) ==
    IF s = "" THEN ""
    ELSE encode3(ByteAt(s, 1), ByteAt(s, 2), ByteAt(s, 3), Len(s))
            \o Base64(SubSeq(s, 4, Len(s)))

\* s.slice(0, n)
Slice(s, n) == SubSeq(s, 1, IF Len(s) < n THEN Len(s) ELSE n)

\* a PoolConfig: connectionString "" when none is given
PoolConfig(connectionString, useDirect) ==
    [connectionString |-> connectionString, useDirect |-> useDirect]

\* get: the registry key of a database identifier and configuration
uniqueKey(dbIdentifier, config) ==
    IF config.connectionString # ""
    THEN "ext_" \o dbIdentifier \o "_" \o Slice(Base64(config.connectionString), 10)
    ELSE dbIdentifier \o "_" \o (IF config.useDirect THEN "direct" ELSE "pool")

\* get: the URL the pool is constructed with
dbUrl(dbIdentifier, config) ==
    IF config.connectionString # "" THEN config.connectionString
    ELSE "postgresql://cascata_admin:secure_pass@"
            \o (IF config.useDirect THEN "db:5432" ELSE "pgbouncer:6432")
            \o "/" \o dbIdentifier

\* the cap on registry entries (500 in the source)
MAX_ACTIVE_POOLS == 2

\* the idle threshold (5 minutes in the source), in steps of the clock
IDLE_THRESHOLD_MS == 1

\* a PoolEntry under its key; pool is the identity of the pg.Pool object
PoolEntry(key, pool, lastAccessed) ==
    [key |-> key, pool |-> pool, lastAccessed |-> lastAccessed]

\* a pg.Pool object: the key its error handler closes over, the database
\* identifier and URL it was constructed for, whether end() was called on it
PoolObject(key, db, url) ==
    [key |-> key, db |-> db, url |-> url, ended |-> FALSE]

KeysOf(entries) == {entries[i].key : i \in 1..Len(entries)}

PoolsOf(entries) == {entries[i].pool : i \in 1..Len(entries)}

\* this.pools.has(key)
Has(reg, key) == key \in KeysOf(reg)

\* this.pools.get(key).pool, 0 when there is no entry
PoolAt(reg, key) ==
    IF Has(reg, key)
    THEN reg[CHOOSE i \in 1..Len(reg) : reg[i].key = key].pool
    ELSE 0

\* the Map without the entries of the given keys, in insertion order
RECURSIVE without(_, _)
without(reg, keys) ==
    IF Len(reg) = 0 THEN <<>>
    ELSE (IF reg[1].key \in keys THEN <<>> ELSE <<reg[1]>>) \o without(Tail(reg), keys)

RECURSIVE insertSorted(_, _)
insertSorted(sorted, e) ==
    IF Len(sorted) = 0 THEN <<e>>
    ELSE IF sorted[1].lastAccessed <= e.lastAccessed
    THEN <<sorted[1]>> \o insertSorted(Tail(sorted), e)
    ELSE <<e>> \o sorted

\* Array.from(this.pools.entries()).sort(by lastAccessed); the sort is stable
RECURSIVE sortByLastAccessed(_, _)
sortByLastAccessed(entries, acc) ==
    IF Len(entries) = 0 THEN acc
    ELSE sortByLastAccessed(Tail(entries), insertSorted(acc, entries[1]))

idleOnes_none(entries, now) == <<>>

\* reapZombies, step 1: the entries closed as idle
RECURSIVE idleOnes(_, _)
idleOnes(entries, now) ==
    IF Len(entries) = 0 THEN <<>>
    ELSE (IF now - entries[1].lastAccessed > IDLE_THRESHOLD_MS
          THEN <<entries[1]>> ELSE <<>>)
            \o idleOnes(Tail(entries), now)

hardCapOnes_none(remainingEntries, size) == <<>>

hardCapOnes_newest(remainingEntries, size) ==
    IF size > MAX_ACTIVE_POOLS
    THEN SubSeq(remainingEntries,
                Len(remainingEntries) - (size - MAX_ACTIVE_POOLS) + 1,
                Len(remainingEntries))
    ELSE <<>>

\* reapZombies, step 2: the entries closed by the hard cap, size being the
\* size of the Map after step 1
hardCapOnes(remainingEntries, size) ==
    IF size > MAX_ACTIVE_POOLS
    THEN SubSeq(remainingEntries, 1,
                IF size - MAX_ACTIVE_POOLS < Len(remainingEntries)
                THEN size - MAX_ACTIVE_POOLS ELSE Len(remainingEntries))
    ELSE <<>>

\* gracefulClose of each closed entry: pool.end() and this.pools.delete(key)
reaped(reg, idle, capped) ==
    [pools |-> without(reg, KeysOf(idle) \cup KeysOf(capped)), closed |-> idle \o capped]

reapAfterIdle(reg, entries, idle) ==
    reaped(reg, idle, hardCapOnes(without(entries, KeysOf(idle)), Len(reg) - Len(idle)))

reapSorted(reg, entries, now) == reapAfterIdle(reg, entries, idleOnes(entries, now))

\* reapZombies: the Map it leaves and the entries it closed
reapZombies(reg, now) == reapSorted(reg, sortByLastAccessed(reg, <<>>), now)

\* pool.end() called on the pools of the closed entries
endAll(objs, ids) ==
    [i \in 1..Len(objs) |-> IF i \in ids THEN [objs[i] EXCEPT !.ended = TRUE] ELSE objs[i]]

\* what get returns: the Map and pool objects it leaves, the pool it returned
\* (0 when it threw), whether it constructed one, the entries it closed
GetOut(reg, objs, pool, created, closed, threw) ==
    [pools |-> reg, objs |-> objs, pool |-> pool, created |-> created,
     closed |-> closed, threw |-> threw]

RECURSIVE touch(_, _, _)
touch(reg, key, now) ==
    IF Len(reg) = 0 THEN <<>>
    ELSE <<IF reg[1].key = key THEN [reg[1] EXCEPT !.lastAccessed = now] ELSE reg[1]>>
            \o touch(Tail(reg), key, now)

getReaped(objs, reap) ==
    GetOut(reap.pools, endAll(objs, PoolsOf(reap.closed)), Len(objs), TRUE, reap.closed, "")

\* get from this.pools.set on
getSet(reg, objs, now) ==
    IF Len(reg) > MAX_ACTIVE_POOLS
    THEN getReaped(objs, reapZombies(reg, now))
    ELSE GetOut(reg, objs, Len(objs), TRUE, <<>>, "")

getMiss_entryFirst(reg, objs, key, dbIdentifier, url, now, constructs) ==
    IF ~constructs
    THEN GetOut(Append(reg, PoolEntry(key, 0, now)), objs, 0, FALSE, <<>>,
                "new Pool() failed")
    ELSE getSet(Append(reg, PoolEntry(key, Len(objs) + 1, now)),
                Append(objs, PoolObject(key, dbIdentifier, url)), now)

\* get on a cache miss; constructs: new Pool(poolConfig) does not throw
getMiss(reg, objs, key, dbIdentifier, url, now, constructs) ==
    IF ~constructs
    THEN GetOut(reg, objs, 0, FALSE, <<>>, "new Pool() failed")
    ELSE getSet(Append(reg, PoolEntry(key, Len(objs) + 1, now)),
                Append(objs, PoolObject(key, dbIdentifier, url)), now)

getKeyed_noCache(reg, objs, key, dbIdentifier, url, now, constructs) ==
    getMiss(without(reg, {key}), objs, key, dbIdentifier, url, now, constructs)

getKeyed(reg, objs, key, dbIdentifier, url, now, constructs) ==
    IF Has(reg, key)
    THEN GetOut(touch(reg, key, now), objs, PoolAt(reg, key), FALSE, <<>>, "")
    ELSE getMiss(reg, objs, key, dbIdentifier, url, now, constructs)

\* PoolService.get
get(reg, objs, dbIdentifier, config, now, constructs) ==
    getKeyed(reg, objs, uniqueKey(dbIdentifier, config), dbIdentifier,
             dbUrl(dbIdentifier, config), now, constructs)

\* close: the entries whose key contains the identifier
RECURSIVE keysContaining(_, _)
keysContaining(reg, dbIdentifier) ==
    IF Len(reg) = 0 THEN <<>>
    ELSE (IF Includes(reg[1].key, dbIdentifier) THEN <<reg[1]>> ELSE <<>>)
            \o keysContaining(Tail(reg), dbIdentifier)

\* PoolService.close
close(reg, dbIdentifier) == reaped(reg, keysContaining(reg, dbIdentifier), <<>>)

onError_keep(reg, uniqueKeyOfPool) == reg

\* the pool.on('error') handler of the pool constructed under uniqueKeyOfPool
onError(reg, uniqueKeyOfPool) ==
    IF Has(reg, uniqueKeyOfPool) THEN without(reg, {uniqueKeyOfPool}) ELSE reg

\* pool.query on a handle: the error pg answers with once end() was called
poolQuery(obj) ==
    IF obj.ended THEN "Cannot use a pool after calling end on the pool" ELSE ""

\* the tenants whose requests reach the registry: their system.projects rows
Tenant(slug, db_name, external_db_url, read_replica_url) ==
    [slug |-> slug, db_name |-> db_name, external_db_url |-> external_db_url,
     read_replica_url |-> read_replica_url]

Tenants ==
    { Tenant("acme", Projects["acme"].db_name, Projects["acme"].external_db_url,
             Projects["acme"].read_replica_url),
      Tenant("acme2", Projects["acme"].db_name \o "2", "postgres://primary.acme2/db",
             "postgres://replica.acme2/db") }

TenantOf(slug) == CHOOSE t \in Tenants : t.slug = slug

Methods == {"GET", "POST"}

\* the configuration resolveProject passes to get for a request of tenant t
StrategyConfig(t, method) == PoolConfig(targetConnectionString(t, method), FALSE)

\* the key and the URL get computes for each tenant and method
StrategyKey ==
    [slug \in {t.slug : t \in Tenants}, method \in Methods |->
        uniqueKey(TenantOf(slug).db_name, StrategyConfig(TenantOf(slug), method))]

StrategyUrl ==
    [slug \in {t.slug : t \in Tenants}, method \in Methods |->
        dbUrl(TenantOf(slug).db_name, StrategyConfig(TenantOf(slug), method))]

\* the last value of the clock (Date.now(), in steps)
MaxClock == 2

\* the number of pg.Pool objects constructed in a run
MaxPoolsMade == 3

\* what the last operation on the registry was and did
Last(op, tenant, db, method, key, prior, pool, created, closed, threw, size) ==
    [op |-> op, tenant |-> tenant, db |-> db, method |-> method, key |-> key,
     prior |-> prior, pool |-> pool, created |-> created, closed |-> closed,
     threw |-> threw, size |-> size]

NoLast(op) == Last(op, "", "", "", "", 0, 0, FALSE, <<>>, "", 0)

PoolIdle ==
    /\ pools = <<>>
    /\ poolObjs = <<>>
    /\ clock = 0
    /\ held = 0
    /\ last = NoLast("init")

\* a pool that was ended and that no caller holds is garbage: nothing can tell
\* such pools apart any more
Collected == [key |-> "", db |-> "", url |-> "", ended |-> TRUE]

collect(objs, h) ==
    [i \in 1..Len(objs) |-> IF objs[i].ended /\ i # h THEN Collected ELSE objs[i]]

Acquired(t, method, key, out, keep) ==
    /\ Len(out.objs) <= MaxPoolsMade
    /\ pools' = out.pools
    /\ held' = IF keep /\ held = 0 THEN out.pool ELSE held
    /\ poolObjs' = collect(out.objs, held')
    /\ last' = Last("get", t.slug, t.db_name, method, key, PoolAt(pools, key),
                    out.pool, out.created, out.closed, out.threw, Len(pools))

\* the CONNECTION STRATEGY block of resolveProject calling PoolService.get
\* for a request of tenant t; keep: the caller goes on using the handle
AcquireAs(keep) ==
    /\ \E t \in Tenants : \E method \in Methods :
       \E constructs \in BOOLEAN :
          Acquired(t, method, StrategyKey[t.slug, method],
                   getKeyed(pools, poolObjs, StrategyKey[t.slug, method], t.db_name,
                            StrategyUrl[t.slug, method], clock, constructs),
                   keep)
    /\ UNCHANGED clock
    /\ UNCHANGED notPoolVars

\* a request whose handler is still running when the next operation comes
Acquire == \E keep \in BOOLEAN : AcquireAs(keep)

\* a request that is over before the next operation
Request == AcquireAs(FALSE)

Reaped(op, db, out) ==
    /\ pools' = out.pools
    /\ poolObjs' = collect(endAll(poolObjs, PoolsOf(out.closed)), held)
    /\ last' = Last(op, "", db, "", "", 0, 0, FALSE, out.closed, "", Len(pools))

\* the setInterval callback of initReaper
ReaperTick ==
    /\ Reaped("reap", "", reapZombies(pools, clock))
    /\ UNCHANGED <<clock, held>>
    /\ UNCHANGED notPoolVars

\* PoolService.close(db), as reload and deleteProject call it
Close ==
    /\ \E t \in Tenants : Reaped("close", t.db_name, close(pools, t.db_name))
    /\ UNCHANGED <<clock, held>>
    /\ UNCHANGED notPoolVars

\* a pool emits 'error'
PoolError ==
    /\ \E id \in 1..Len(poolObjs) :
          /\ ~poolObjs[id].ended
          /\ pools' = onError(pools, poolObjs[id].key)
          /\ last' = Last("error", "", poolObjs[id].db, "", poolObjs[id].key,
                          PoolAt(pools, poolObjs[id].key), id, FALSE, <<>>, "",
                          Len(pools))
    /\ UNCHANGED <<poolObjs, clock, held>>
    /\ UNCHANGED notPoolVars

\* a caller runs a query on the handle it got from get
Query ==
    /\ held # 0
    /\ last' = Last("query", "", poolObjs[held].db, "", poolObjs[held].key, 0, held,
                    FALSE, <<>>, poolQuery(poolObjs[held]), Len(pools))
    /\ UNCHANGED <<pools, poolObjs, clock, held>>
    /\ UNCHANGED notPoolVars

\* time passes
Advance ==
    /\ clock < MaxClock
    /\ clock' = clock + 1
    /\ last' = NoLast("advance")
    /\ UNCHANGED <<pools, poolObjs, held>>
    /\ UNCHANGED notPoolVars

\* the registry within one clock step: requests, administration, failures,
\* and the queries of a caller on the handle it holds
PoolNext ==
    \/ Acquire
    \/ Close
    \/ PoolError
    \/ Query

\* the registry over time: requests, administration, failures and the reaper
ReapNext ==
    \/ Request
    \/ ReaperTick
    \/ Close
    \/ PoolError
    \/ Advance

-----------------------------------------------------------------------------
(* RealtimeService: SSE subscribers and the LISTEN client of each tenant *)

\* the cap on the subscribers of a project
MAX_CLIENTS_PER_PROJECT == 2

\* the number of SSE connections and of pg Clients constructed in a run
MaxConns == 3

MaxListenerClients == 3

\* req.query.table: "" when the query has none
TableFilters == {"", "orders"}

\* the table of a notification payload
PayloadTables == {"orders", "users"}

\* an SSE request: at is where its handleConnection stands ("setup": awaiting
\* setupProjectListener; "registered": added to the set, close handler
\* attached; "done": answered 429 or removed), open whether the socket is
\* open, client the pg Client its setup constructed (0 if none)
ClientConnection(slug, tableFilter, at, open, client) ==
    [slug |-> slug, tableFilter |-> tableFilter, at |-> at, open |-> open,
     client |-> client]

\* the record of a request handleConnection has nothing to do with any more
Gone == ClientConnection("", "", "done", FALSE, 0)

\* a pg Client made by setupProjectListener: "connecting", "listening" (LISTEN
\* done, handlers attached), or "closed" (connect failed, end() called or the
\* connection lost)
ListenerClient(slug, state) == [slug |-> slug, state |-> state]

ClosedClient == ListenerClient("", "closed")

\* the LISTEN connections open for a tenant
OpenListeners(slug) ==
    {i \in 1..Len(clients) : clients[i].slug = slug /\ clients[i].state = "listening"}

\* teardownProjectListener: the clients and the listeners Map it leaves
teardownClients(cls, lst, slug) ==
    IF lst[slug] # 0 THEN [cls EXCEPT ![lst[slug]] = ClosedClient] ELSE cls

teardownListeners(lst, slug) == [lst EXCEPT ![slug] = 0]

\* what the last operation answered or wrote
RtLast(op, slug, table, status, wrote) ==
    [op |-> op, slug |-> slug, table |-> table, status |-> status, wrote |-> wrote]

NoRt == RtLast("", "", "", 0, <<>>)

RealtimeIdle ==
    /\ subscribers = [s \in Slugs |-> {}]
    /\ listeners = [s \in Slugs |-> 0]
    /\ clients = <<>>
    /\ conns = <<>>
    /\ rtLast = NoRt

\* handleConnection from line 51 on: the connection is added to the set and
\* its close handler attached
registered(subs, slug, id) == [subs EXCEPT ![slug] = @ \cup {id}]

\* handleConnection up to its end or to the await of setupProjectListener
Connect ==
    /\ Len(conns) < MaxConns
    /\ \E slug \in Slugs : \E table \in TableFilters :
          IF Cardinality(subscribers[slug]) >= MAX_CLIENTS_PER_PROJECT
          THEN /\ conns' = Append(conns, Gone)
               /\ rtLast' = RtLast("connect", slug, "", 429, <<>>)
               /\ UNCHANGED <<subscribers, listeners, clients>>
          ELSE IF listeners[slug] # 0
          THEN /\ conns' = Append(conns,
                              ClientConnection(slug, table, "registered", TRUE, 0))
               /\ subscribers' = registered(subscribers, slug, Len(conns) + 1)
               /\ rtLast' = RtLast("connect", slug, "", 200, <<>>)
               /\ UNCHANGED <<listeners, clients>>
          ELSE /\ Len(clients) < MaxListenerClients
               /\ conns' = Append(conns,
                              ClientConnection(slug, table, "setup", TRUE,
                                               Len(clients) + 1))
               /\ clients' = Append(clients, ListenerClient(slug, "connecting"))
               /\ rtLast' = RtLast("connect", slug, "", 200, <<>>)
               /\ UNCHANGED <<subscribers, listeners>>
    /\ UNCHANGED notRtVars

\* setupProjectListener returns, connected and listening or having caught its
\* error, and handleConnection goes on to register the connection
SetupDone ==
    /\ \E id \in 1..Len(conns) : \E ok \in BOOLEAN :
          /\ conns[id].at = "setup"
          /\ clients' = [clients EXCEPT ![conns[id].client] =
                            IF ok THEN ListenerClient(conns[id].slug, "listening")
                            ELSE ClosedClient]
          /\ listeners' = IF ok
                          THEN [listeners EXCEPT ![conns[id].slug] = conns[id].client]
                          ELSE listeners
          /\ subscribers' = registered(subscribers, conns[id].slug, id)
          /\ conns' = [conns EXCEPT ![id].at = "registered", ![id].client = 0]
    /\ rtLast' = NoRt
    /\ UNCHANGED notRtVars

\* the socket of an SSE request closes: req emits 'close'
SocketClose ==
    /\ \E id \in 1..Len(conns) :
          /\ conns[id].open
          /\ IF conns[id].at = "registered"
             THEN /\ conns' = [conns EXCEPT ![id] = Gone]
                  /\ subscribers' = [subscribers EXCEPT ![conns[id].slug] = @ \ {id}]
                  /\ IF subscribers[conns[id].slug] \ {id} = {}
                     THEN /\ clients' = teardownClients(clients, listeners, conns[id].slug)
                          /\ listeners' = teardownListeners(listeners, conns[id].slug)
                     ELSE UNCHANGED <<clients, listeners>>
             ELSE /\ conns' = [conns EXCEPT ![id].open = FALSE]
                  /\ UNCHANGED <<subscribers, clients, listeners>>
    /\ rtLast' = NoRt
    /\ UNCHANGED notRtVars

\* a listening client emits 'error': its connection is lost and its handler
\* tears down the listener registered for its tenant
ListenerError ==
    /\ \E c \in 1..Len(clients) :
          /\ clients[c].state = "listening"
          /\ clients' = [teardownClients(clients, listeners, clients[c].slug)
                            EXCEPT ![c] = ClosedClient]
          /\ listeners' = teardownListeners(listeners, clients[c].slug)
    /\ rtLast' = NoRt
    /\ UNCHANGED <<subscribers, conns>>
    /\ UNCHANGED notRtVars

\* AdminController.updateProject / deleteProject
AdminTeardown ==
    /\ \E slug \in Slugs :
          /\ listeners[slug] # 0
          /\ clients' = teardownClients(clients, listeners, slug)
          /\ listeners' = teardownListeners(listeners, slug)
    /\ rtLast' = NoRt
    /\ UNCHANGED <<subscribers, conns>>
    /\ UNCHANGED notRtVars

\* res.writableEnded: handleConnection never ends a stream
writableEnded(c) == FALSE

\* broadcast: whether the frame is written to a subscriber
writes(c, table) ==
    /\ ~writableEnded(c)
    /\ (c.tableFilter = "" \/ c.tableFilter = table)

\* broadcast(slug, payload): the number of frames written to each connection
\* when every listening client of the tenant hands the notification over
broadcast(subs, cs, slug, table, times) ==
    [id \in 1..Len(cs) |->
        IF id \in subs[slug] /\ writes(cs[id], table) THEN times ELSE 0]

\* the tenant's database notifies cascata_events; each connection listening
\* on it receives the message
Notify ==
    /\ \E slug \in Slugs : \E table \in PayloadTables :
          /\ OpenListeners(slug) # {}
          /\ rtLast' = RtLast("notify", slug, table, 0,
                              broadcast(subscribers, conns, slug, table,
                                        Cardinality(OpenListeners(slug))))
    /\ UNCHANGED <<subscribers, listeners, clients, conns>>
    /\ UNCHANGED notRtVars

RealtimeNext ==
    \/ Connect
    \/ SetupDone
    \/ SocketClose
    \/ ListenerError
    \/ AdminTeardown
    \/ Notify

-----------------------------------------------------------------------------
(* PushService: the device table of a tenant and the push deliveries *)

Users == {"u1", "u2"}

DeviceTokens == {"t1", "t2"}

\* the platform argument a device registers with
PlatformOf(token) == IF token = "t1" THEN "ios" ELSE "android"

MaxCalls == 2

MaxPushClock == 1

\* a row of auth.user_devices; UNIQUE(user_id, token) is its only key
DeviceRow(userId, token, now) ==
    [user_id |-> userId, token |-> token, platform |-> PlatformOf(token),
     last_active_at |-> now, is_active |-> TRUE]

RowsOfToken(rows, token) == {d \in rows : d.token = token}

deleteOthers_none(rows, token, userId) == rows

\* DELETE FROM auth.user_devices WHERE token = $1 AND user_id != $2
deleteOthers(rows, token, userId) ==
    {d \in rows : ~(d.token = token /\ d.user_id # userId)}

\* INSERT ... ON CONFLICT (user_id, token) DO UPDATE SET last_active_at =
\* NOW(), is_active = true, app_version, platform (the queue version leaves
\* platform, which a device never changes here)
upsert(rows, userId, token, now) ==
    IF \E d \in rows : d.user_id = userId /\ d.token = token
    THEN {IF d.user_id = userId /\ d.token = token
          THEN [d EXCEPT !.last_active_at = now, !.is_active = TRUE,
                         !.platform = PlatformOf(token)]
          ELSE d : d \in rows}
    ELSE rows \cup {DeviceRow(userId, token, now)}

\* DELETE FROM auth.user_devices WHERE token = $1
unregisterDevice(rows, token) == {d \in rows : d.token # token}

\* SELECT token, platform FROM auth.user_devices WHERE user_id = $1 AND
\* is_active = true
activeTokens(rows, userId) ==
    {d.token : d \in {e \in rows : e.user_id = userId /\ e.is_active}}

\* a registerDevice call between its two statements
RegCall(userId, token, at, alone, evicted) ==
    [userId |-> userId, token |-> token, at |-> at, alone |-> alone,
     evicted |-> evicted]

NoRegCall == RegCall("", "", "none", FALSE, FALSE)

InFlight(cs, token) == {i \in 1..MaxCalls : cs[i].token = token}

\* the calls on the same token are no longer alone
overlap(cs, token) ==
    [i \in 1..MaxCalls |->
        IF cs[i].token = token THEN [cs[i] EXCEPT !.alone = FALSE] ELSE cs[i]]

PushLast(op, userId, token, alone, evicted, now) ==
    [op |-> op, userId |-> userId, token |-> token, alone |-> alone,
     evicted |-> evicted, now |-> now]

NoPush == PushLast("", "", "", FALSE, FALSE, 0)

\* what FCM answers a messages:send: the HTTP status (0 when no response
\* came) and the errorCode of the first error detail
FcmAnswer(status, errorCode) == [status |-> status, errorCode |-> errorCode]

FcmAnswers ==
    { FcmAnswer(200, ""), FcmAnswer(404, "UNREGISTERED"), FcmAnswer(410, ""),
      FcmAnswer(500, "INTERNAL"), FcmAnswer(0, "") }

NoAnswer == FcmAnswer(-1, "")

\* the two versions of the delivery: sendToUser of PushService.ts, and
\* processDelivery, which the push worker calls
Versions == {"sendToUser", "processDelivery"}

\* the catch block of one device: the device table after it
sendToUserCatch(rows, token, answer) ==
    IF answer.errorCode = "UNREGISTERED" \/ answer.status = 404
    THEN unregisterDevice(rows, token) ELSE rows

processDeliveryCatch(rows, token, answer) ==
    IF answer.status = 404 \/ answer.status = 410
    THEN unregisterDevice(rows, token) ELSE rows

\* the result status of one device
sendToUserStatus(answer) ==
    IF answer.status = 200 THEN "sent"
    ELSE IF answer.errorCode = "UNREGISTERED" \/ answer.status = 404
    THEN "invalid_token_removed" ELSE "error"

processDeliveryStatus(answer) == IF answer.status = 200 THEN "sent" ELSE "error"

afterAnswer(version, rows, token, answer) ==
    IF answer.status = 200 THEN rows
    ELSE IF version = "sendToUser" THEN sendToUserCatch(rows, token, answer)
    ELSE processDeliveryCatch(rows, token, answer)

statusOf(version, answer) ==
    IF version = "sendToUser" THEN sendToUserStatus(answer)
    ELSE processDeliveryStatus(answer)

\* the status column of the system.notification_history row
historyStatus(version, results) ==
    IF version = "processDelivery" THEN "completed"
    ELSE IF \A t \in DOMAIN results : results[t] = "sent" THEN "completed"
    ELSE "partial"

\* a delivery: the tokens it selected, what FCM answered each, the per-device
\* results, the tokens it deleted, and the history row it wrote
Delivery(version, userId, tokens, state) ==
    [version |-> version, userId |-> userId, tokens |-> tokens,
     answers |-> [t \in tokens |-> NoAnswer],
     results |-> [t \in tokens |-> ""],
     kept |-> [t \in tokens |-> TRUE],
     state |-> state, history |-> ""]

NoDelivery == Delivery("", "", {}, "none")

PushIdle ==
    /\ devices = {}
    /\ calls = [i \in 1..MaxCalls |-> NoRegCall]
    /\ pushClock = 0
    /\ pushLast = NoPush
    /\ delivery = NoDelivery

FreeSlot(i) ==
    /\ calls[i] = NoRegCall
    /\ \A j \in 1..(i - 1) : calls[j] # NoRegCall

\* registerDevice is called: it sends its DELETE (registrations and deliveries
\* are taken in turn: none starts while a delivery is in progress)
RegisterDevice ==
    /\ delivery = NoDelivery
    /\ \E i \in 1..MaxCalls, userId \in Users, token \in DeviceTokens :
          /\ FreeSlot(i)
          /\ calls' = [overlap(calls, token) EXCEPT
                          ![i] = RegCall(userId, token, "delete",
                                         InFlight(calls, token) = {}, FALSE)]
    /\ UNCHANGED <<devices, pushClock, pushLast, delivery>>
    /\ UNCHANGED notPushVars

\* the DELETE of a call runs
RegisterDelete ==
    /\ \E i \in 1..MaxCalls :
          /\ calls[i].at = "delete"
          /\ devices' = deleteOthers(devices, calls[i].token, calls[i].userId)
          /\ calls' = [calls EXCEPT
                          ![i].at = "insert",
                          ![i].evicted =
                              deleteOthers(devices, calls[i].token, calls[i].userId)
                                  # devices]
    /\ UNCHANGED <<pushClock, pushLast, delivery>>
    /\ UNCHANGED notPushVars

\* the INSERT of a call runs and the call returns { success: true }
RegisterInsert ==
    /\ \E i \in 1..MaxCalls :
          /\ calls[i].at = "insert"
          /\ devices' = upsert(devices, calls[i].userId, calls[i].token, pushClock)
          /\ pushLast' = PushLast("register", calls[i].userId, calls[i].token,
                                  calls[i].alone, calls[i].evicted, pushClock)
          /\ calls' = [calls EXCEPT ![i] = NoRegCall]
    /\ UNCHANGED <<pushClock, delivery>>
    /\ UNCHANGED notPushVars

\* NOW() moves on
PushTick ==
    /\ pushClock < MaxPushClock
    /\ pushClock' = pushClock + 1
    /\ UNCHANGED <<devices, calls, pushLast, delivery>>
    /\ UNCHANGED notPushVars

\* a delivery starts: the SELECT of the user's devices, the exchange of the
\* signed JWT for an access token (it may fail, and the delivery throws), and
\* the messages:send POST of every selected device
StartDelivery ==
    /\ delivery = NoDelivery
    /\ \A i \in 1..MaxCalls : calls[i] = NoRegCall
    /\ \E version \in Versions, userId \in Users, tokenOk \in BOOLEAN :
          delivery' =
              IF activeTokens(devices, userId) = {}
              THEN Delivery(version, userId, {}, "no_devices")
              ELSE IF ~tokenOk
              THEN Delivery(version, userId, activeTokens(devices, userId), "failed")
              ELSE Delivery(version, userId, activeTokens(devices, userId), "sending")
    /\ pushLast' = NoPush
    /\ UNCHANGED <<devices, calls, pushClock>>
    /\ UNCHANGED notPushVars

\* FCM answers the POST of one device and the callback of that device runs
DeviceAnswered ==
    /\ delivery.state = "sending"
    /\ \E token \in delivery.tokens, answer \in FcmAnswers :
          /\ delivery.answers[token] = NoAnswer
          /\ devices' = afterAnswer(delivery.version, devices, token, answer)
          /\ delivery' = [delivery EXCEPT
                !.answers[token] = answer,
                !.results[token] = statusOf(delivery.version, answer),
                !.kept[token] =
                    RowsOfToken(afterAnswer(delivery.version, devices, token, answer),
                                token) # {}]
    /\ pushLast' = NoPush
    /\ UNCHANGED <<calls, pushClock>>
    /\ UNCHANGED notPushVars

\* Promise.all resolved: the history row is written and the delivery returns
FinishDelivery ==
    /\ delivery.state = "sending"
    /\ \A token \in delivery.tokens : delivery.answers[token] # NoAnswer
    /\ delivery' = [delivery EXCEPT
                       !.state = "done",
                       !.history = historyStatus(delivery.version, delivery.results)]
    /\ pushLast' = NoPush
    /\ UNCHANGED <<devices, calls, pushClock>>
    /\ UNCHANGED notPushVars

\* the delivery has returned or thrown and its caller is done with the result
ReturnDelivery ==
    /\ delivery.state \in {"done", "no_devices", "failed"}
    /\ delivery' = NoDelivery
    /\ UNCHANGED <<devices, calls, pushClock, pushLast>>
    /\ UNCHANGED notPushVars

PushNext ==
    \/ RegisterDevice
    \/ RegisterDelete
    \/ RegisterInsert
    \/ PushTick

DeliveryNext ==
    \/ RegisterDevice
    \/ RegisterDelete
    \/ RegisterInsert
    \/ StartDelivery
    \/ DeviceAnswered
    \/ FinishDelivery
    \/ ReturnDelivery

-----------------------------------------------------------------------------
(* Shutdown of the API server process *)

\* signals the process receives while it shuts down
MaxSignals == 2

\* HTTP connections open when the first signal comes
MaxOpen == 2

\* the forced-shutdown delay (10000 ms in the source), in clock steps
ShutdownDeadline == 2

\* the process: the gracefulShutdown calls made, the clock since the first of
\* them, the pending setTimeout deadlines, the HTTP server and its open
\* connections, where each server.close callback stands, the tenant pools of
\* the registry and the system pool, and the exit code (-1 while running)
Proc(signals, time, timers, server, open, cbs, tenant, system, exit) ==
    [signals |-> signals, time |-> time, timers |-> timers, server |-> server,
     open |-> open, cbs |-> cbs, tenant |-> tenant, system |-> system,
     exit |-> exit]

Running(open) ==
    Proc(0, 0, {}, "listening", open, [i \in 1..MaxSignals |-> "none"],
         "open", "open", -1)

ShutdownIdle == proc = Running(0)

\* PoolService.closeAll up to its await, run by the callbacks that the 'close'
\* event calls, in the order they were registered: the first end() on the
\* tenant pools starts their drain and is awaited; end() on a pool that is
\* already ending rejects at once, the rejection is swallowed, and Promise.all
\* is already settled
closeAllStarted(cbs, tenant) ==
    [i \in 1..MaxSignals |->
        IF cbs[i] # "waiting" THEN cbs[i]
        ELSE IF tenant = "open" /\ \A j \in 1..(i - 1) : cbs[j] # "waiting"
        THEN "draining"
        ELSE "ready"]

\* SIGTERM or SIGINT: gracefulShutdown runs
GracefulShutdown ==
    /\ proc.exit = -1
    /\ proc.signals < MaxSignals
    /\ proc' = [proc EXCEPT
                   !.signals = @ + 1,
                   !.server = IF @ = "listening" THEN "closing" ELSE @,
                   !.cbs[proc.signals + 1] = "waiting",
                   !.timers = @ \cup {proc.time + ShutdownDeadline}]
    /\ UNCHANGED notProcVars

\* a client ends one of the open HTTP connections
ConnectionEnds ==
    /\ proc.exit = -1
    /\ proc.open > 0
    /\ proc' = [proc EXCEPT !.open = @ - 1]
    /\ UNCHANGED notProcVars

\* the server emits 'close': no connection is left, or close was called on a
\* server that had closed already; the waiting callbacks run to their await
ServerClosed ==
    /\ proc.exit = -1
    /\ proc.server \in {"closing", "closed"}
    /\ proc.open = 0
    /\ \E i \in 1..MaxSignals : proc.cbs[i] = "waiting"
    /\ proc' = [proc EXCEPT
                   !.server = "closed",
                   !.cbs = closeAllStarted(proc.cbs, proc.tenant),
                   !.tenant = IF @ = "open" THEN "ending" ELSE @]
    /\ UNCHANGED notProcVars

\* the tenant pools have drained: the end() promises resolve
TenantDrained ==
    /\ proc.exit = -1
    /\ proc.tenant = "ending"
    /\ proc' = [proc EXCEPT
                   !.tenant = "ended",
                   !.cbs = [i \in 1..MaxSignals |->
                               IF proc.cbs[i] = "draining" THEN "ready"
                               ELSE proc.cbs[i]]]
    /\ UNCHANGED notProcVars

\* a callback resumes after await PoolService.closeAll(): pools.clear(), then
\* systemPool.end(), which rejects when the pool is ending already, and the
\* catch block exits with 1
CloseAllReturned ==
    /\ proc.exit = -1
    /\ \E i \in 1..MaxSignals :
          /\ proc.cbs[i] = "ready"
          /\ \A j \in 1..(i - 1) : proc.cbs[j] # "ready"
          /\ proc' = IF proc.system = "open"
                     THEN [proc EXCEPT !.system = "ending", !.cbs[i] = "ending"]
                     ELSE [proc EXCEPT !.cbs[i] = "done", !.exit = 1]
    /\ UNCHANGED notProcVars

\* the system pool has ended: the callback awaiting it calls process.exit(0)
SystemPoolEnded ==
    /\ proc.exit = -1
    /\ proc.system = "ending"
    /\ proc' = [proc EXCEPT
                   !.system = "ended",
                   !.cbs = [i \in 1..MaxSignals |->
                               IF proc.cbs[i] = "ending" THEN "done" ELSE proc.cbs[i]],
                   !.exit = 0]
    /\ UNCHANGED notProcVars

\* time passes, up to the first pending deadline
ShutdownTick ==
    /\ proc.exit = -1
    /\ proc.signals > 0
    /\ \A deadline \in proc.timers : proc.time < deadline
    /\ proc' = [proc EXCEPT !.time = @ + 1]
    /\ UNCHANGED notProcVars

\* the setTimeout callback: process.exit(1)
ForcedShutdown ==
    /\ proc.exit = -1
    /\ \E deadline \in proc.timers : proc.time >= deadline
    /\ proc' = [proc EXCEPT !.exit = 1]
    /\ UNCHANGED notProcVars

ShutdownNext ==
    \/ GracefulShutdown
    \/ ConnectionEnds
    \/ ServerClosed
    \/ TenantDrained
    \/ CloseAllReturned
    \/ SystemPoolEnded
    \/ ShutdownTick
    \/ ForcedShutdown

-----------------------------------------------------------------------------
(* The request pipeline as a state machine *)

PipelineIdle ==
    /\ req = NoReq
    /\ pc = "idle"
    /\ res = 0
    /\ r = EmptyCtx
    /\ found = ""
    /\ shield = FALSE
    /\ handled = FALSE
    /\ panic = {}
    /\ dbLog = {}

NewRequest ==
    /\ pc = "idle"
    /\ \E q \in Requests : req' = q
    /\ pc' = "resolve"
    /\ UNCHANGED <<res, r, found, shield, handled, panic, dbLog>>
    /\ UNCHANGED notPipeVars

\* the response is out and the request object is dropped
Finish ==
    /\ pc = "done"
    /\ req' = NoReq
    /\ pc' = "idle"
    /\ res' = 0
    /\ r' = EmptyCtx
    /\ found' = ""
    /\ shield' = FALSE
    /\ handled' = FALSE
    /\ dbLog' = {}
    /\ UNCHANGED panic
    /\ UNCHANGED notPipeVars

ResolveProject ==
    /\ pc = "resolve"
    /\ LET out == resolveProject(req, panic)
       IN  /\ r' = out.ctx
           /\ res' = out.status
           /\ found' = out.row
           /\ shield' = out.flagged
           /\ pc' = IF out.next THEN "auth" ELSE "done"
    /\ UNCHANGED <<req, handled, panic, dbLog>>
    /\ UNCHANGED notPipeVars

CascataAuth ==
    /\ pc = "auth"
    /\ LET out == cascataAuth(req, r)
       IN  /\ r' = [r EXCEPT !.userRole = out.userRole, !.user = out.user]
           /\ res' = out.status
           /\ pc' = IF out.next THEN "route" ELSE "done"
    /\ UNCHANGED <<req, found, shield, handled, panic, dbLog>>
    /\ UNCHANGED notPipeVars

RunRawQuery ==
    /\ pc = "route"
    /\ IsRawQueryRoute(req, r)
    /\ LET out == runRawQuery(r.userRole, r.projectPool)
       IN  /\ res' = out.status
           /\ dbLog' = dbLog \cup out.sent
    /\ pc' = "done"
    /\ handled' = TRUE
    /\ UNCHANGED <<req, r, found, shield, panic>>
    /\ UNCHANGED notPipeVars

OtherHandler ==
    /\ pc = "route"
    /\ ~IsRawQueryRoute(req, r)
    /\ res' = 200
    /\ pc' = "done"
    /\ handled' = TRUE
    /\ UNCHANGED <<req, r, found, shield, panic, dbLog>>
    /\ UNCHANGED notPipeVars

SetPanic ==
    /\ \E s \in Slugs : s \notin panic /\ panic' = panic \cup {s}
    /\ UNCHANGED <<req, pc, res, r, found, shield, handled, dbLog>>
    /\ UNCHANGED notPipeVars

ClearPanic ==
    /\ \E s \in Slugs : s \in panic /\ panic' = panic \ {s}
    /\ UNCHANGED <<req, pc, res, r, found, shield, handled, dbLog>>
    /\ UNCHANGED notPipeVars

PipelineNext ==
    \/ NewRequest
    \/ ResolveProject
    \/ CascataAuth
    \/ RunRawQuery
    \/ OtherHandler
    \/ Finish
    \/ SetPanic
    \/ ClearPanic

-----------------------------------------------------------------------------
(* DataController.getOpenApiSpec *)

\* JavaScript values a JSON metadata field can hold
JsValue(type, value) == [type |-> type, value |-> value]

JsUndefined == JsValue("undefined", "")

JsTrue == JsValue("boolean", "true")

JsFalse == JsValue("boolean", "false")

ExposureValues == {JsTrue, JsFalse, JsValue("string", "true")}

IntrospectSql == "openapi"

\* as getOpenApiSpec, with the exposure check waived for service_role
getOpenApiSpec_serviceRole(isSystemRequest, schemaExposure, userRole, pool, fails) ==
    IF ~(isSystemRequest \/ userRole = "service_role") /\ schemaExposure # JsTrue
    THEN [status |-> 403, sent |-> {}]
    ELSE [status |-> IF fails THEN 500 ELSE 200,
          sent |-> {[sql |-> IntrospectSql, pool |-> pool, role |-> userRole]}]

\* getOpenApiSpec: the status answered and the statements of the generation;
\* fails: generatePostgrest throws
getOpenApiSpec(isSystemRequest, schemaExposure, userRole, pool, fails) ==
    IF ~isSystemRequest /\ schemaExposure # JsTrue
    THEN [status |-> 403, sent |-> {}]
    ELSE [status |-> IF fails THEN 500 ELSE 200,
          sent |-> {[sql |-> IntrospectSql, pool |-> pool, role |-> userRole]}]

\* no project has the field until the dashboard sets it
ExposureIdle == exposure = [s \in Slugs |-> JsUndefined]

\* the dashboard saves the project's metadata; resolveProject attaches the
\* project row to the request, so a request sees the metadata as it was when
\* it was resolved
SetExposure ==
    /\ pc \in {"idle", "resolve"}
    /\ \E s \in Slugs, v \in ExposureValues :
          /\ exposure[s] # v
          /\ exposure' = [exposure EXCEPT ![s] = v]
    /\ UNCHANGED notExposureVars

Generated(out) ==
    /\ res' = out.status
    /\ dbLog' = dbLog \cup out.sent
    /\ pc' = "done"
    /\ handled' = TRUE
    /\ UNCHANGED <<req, r, found, shield, panic>>
    /\ UNCHANGED notPipeVars

\* the route of getOpenApiSpec, behind resolveProject and cascataAuth like
\* every data-plane route
GetOpenApiSpec ==
    /\ pc = "route"
    /\ r.project # ""
    /\ \E fails \in BOOLEAN :
          Generated(getOpenApiSpec(r.isSystemRequest, exposure[r.project],
                                   r.userRole, r.projectPool, fails))

\* a request that reached no project
NoProjectRoute ==
    /\ pc = "route"
    /\ r.project = ""
    /\ res' = 404
    /\ pc' = "done"
    /\ UNCHANGED <<req, r, found, shield, handled, panic, dbLog>>
    /\ UNCHANGED notPipeVars

OpenApiNext ==
    \/ NewRequest
    \/ ResolveProject
    \/ CascataAuth
    \/ GetOpenApiSpec
    \/ NoProjectRoute
    \/ Finish
    \/ SetExposure

-----------------------------------------------------------------------------
(* The push rule engine, the cascata-push queue and its worker *)

JsNull == JsValue("null", "")

JsString(s) == JsValue("string", s)

\* a == b on the values of a row and of a condition: strings, null, undefined
looseEq(a, b) ==
    IF a.type \in {"null", "undefined"} THEN b.type \in {"null", "undefined"}
    ELSE a = b

\* !!v
truthy(v) == v.type \notin {"null", "undefined"} /\ v.value # ""

\* createProject: the database name recorded for a slug
createProjectDbName(safeSlug) == "cascata_db_" \o ReplaceAll(safeSlug, "-", "_")

\* ImportService: the database name recorded for an imported project
importDbName(safeSlug) == "cascata_proj_" \o ReplaceAll(safeSlug, "-", "_")

\* the tenants of system.projects: one made by createProject, one ejected to
\* an external primary, one restored from a backup
EngineTenants ==
    { Tenant("my-app", createProjectDbName("my-app"), "", ""),
      Tenant("shop", createProjectDbName("shop"), "postgres://ext.shop/db", ""),
      Tenant("acme", importDbName("acme"), "", "") }

EngineTenantOf(slug) == CHOOSE t \in EngineTenants : t.slug = slug

Cond(field, op, value) == [field |-> field, op |-> op, value |-> value]

Rule(id, project_slug, trigger_table, trigger_event, active, conditions, recipient_column) ==
    [id |-> id, project_slug |-> project_slug, trigger_table |-> trigger_table,
     trigger_event |-> trigger_event, active |-> active, conditions |-> conditions,
     recipient_column |-> recipient_column]

\* rows system.notification_rules can hold
RuleRows ==
    { Rule(1, "my-app", "orders", "INSERT", TRUE, <<>>, "user_id"),
      Rule(2, "my-app", "orders", "ALL", TRUE,
           <<Cond("status", "eq", JsString("paid"))>>, "user_id"),
      Rule(3, "my-app", "orders", "UPDATE", TRUE,
           <<Cond("status", "neq", JsString("paid"))>>, "user_id"),
      Rule(4, "my-app", "orders", "INSERT", FALSE, <<>>, "user_id"),
      Rule(5, "shop", "orders", "INSERT", TRUE, <<>>, "user_id"),
      Rule(6, "my-app", "users", "INSERT", TRUE, <<>>, "user_id"),
      Rule(7, "acme", "orders", "ALL", TRUE, <<>>, "user_id") }

\* the table, in the order the SELECT returns its rows
RuleTables == {table \in {<<a, b>> : a, b \in RuleRows} : table[1].id # table[2].id}

Event(table, action, record_id) ==
    [table |-> table, action |-> action, record_id |-> record_id]

EventActions == {"INSERT", "UPDATE", "DELETE"}

\* the row of public.orders with the event's id, or no row
Row(status, user_id) == [id |-> "1", status |-> status, user_id |-> user_id]

NoRow == [id |-> ""]

Rows ==
    {NoRow} \cup {Row(JsString(status), user_id) :
                    status \in {"paid", "open"}, user_id \in {JsString("u1"), JsNull}}

\* record[name]
Field(record, name) == IF name \in DOMAIN record THEN record[name] ELSE JsUndefined

\* the data of a job of the cascata-push queue; externalDbUrl "" when absent
PushJob(projectSlug, userId, dbName, externalDbUrl) ==
    [projectSlug |-> projectSlug, userId |-> userId, dbName |-> dbName,
     externalDbUrl |-> externalDbUrl]

NoPushJob == PushJob("", "", "", "")

\* what a run of the engine did for a rule: a query of the user's devices, a
\* POST to the OAuth endpoint, the POSTs to FCM, a row of history, a job added
Effect(kind, rule, added) == [kind |-> kind, rule |-> rule, job |-> added]

\* PushService.sendToUser of PushService.ts: the delivery itself
sendToUser(rule, tokens) ==
    IF tokens = {} THEN <<Effect("devices", rule, NoPushJob)>>
    ELSE <<Effect("devices", rule, NoPushJob), Effect("oauth", rule, NoPushJob),
           Effect("fcm", rule, NoPushJob), Effect("history", rule, NoPushJob)>>

\* PushService.sendToUser, the producer: one job, with the database name
\* computed from the slug and no externalDbUrl
sendToUserQueue(rule, projectSlug, userId) ==
    <<Effect("enqueue", rule,
             PushJob(projectSlug, userId,
                     "cascata_db_" \o ReplaceAll(projectSlug, "-", "_"), ""))>>

\* the rules SELECT
selectRules(table, projectSlug, event) ==
    SelectSeq(table, LAMBDA rule :
        /\ rule.project_slug = projectSlug
        /\ rule.trigger_table = event.table
        /\ rule.trigger_event \in {event.action, "ALL"}
        /\ rule.active)

\* the conditions loop: eq and neq, any other op is passed over
conditionsMatch(conditions, record) ==
    \A i \in 1..Len(conditions) :
        /\ conditions[i].op = "eq"
              => looseEq(Field(record, conditions[i].field), conditions[i].value)
        /\ conditions[i].op = "neq"
              => ~looseEq(Field(record, conditions[i].field), conditions[i].value)

\* the loop over the rules, of PushService.ts
RECURSIVE ruleLoop(_, _, _)
ruleLoop(rules, record, tokens) ==
    IF rules = <<>> THEN <<>>
    ELSE (IF ~conditionsMatch(Head(rules).conditions, record) THEN <<>>
          ELSE IF ~truthy(Field(record, Head(rules).recipient_column)) THEN <<>>
          ELSE sendToUser(Head(rules).id, tokens))
            \o ruleLoop(Tail(rules), record, tokens)

\* the loop over the rules, of the queue version
RECURSIVE ruleLoopQueue(_, _, _)
ruleLoopQueue(rules, record, projectSlug) ==
    IF rules = <<>> THEN <<>>
    ELSE (IF ~truthy(Field(record, Head(rules).recipient_column)) THEN <<>>
          ELSE sendToUserQueue(Head(rules).id, projectSlug,
                               Field(record, Head(rules).recipient_column).value))
            \o ruleLoopQueue(Tail(rules), record, projectSlug)

\* PushService.processEventTrigger of PushService.ts
processEventTrigger(projectSlug, table, event, record, fcmCredentials, tokens) ==
    IF ~fcmCredentials THEN <<>>
    ELSE IF selectRules(table, projectSlug, event) = <<>> THEN <<>>
    ELSE IF event.action = "DELETE" THEN <<>>
    ELSE IF record = NoRow THEN <<>>
    ELSE ruleLoop(selectRules(table, projectSlug, event), record, tokens)

\* PushService.processEventTrigger, the queue version
processEventTriggerQueue(projectSlug, table, event, record, fcmCredentials) ==
    IF ~fcmCredentials THEN <<>>
    ELSE IF selectRules(table, projectSlug, event) = <<>> THEN <<>>
    ELSE IF record = NoRow THEN <<>>
    ELSE ruleLoopQueue(selectRules(table, projectSlug, event), record, projectSlug)

EngineVersions == {"PushService.ts", "queue"}

Trigger(version, projectSlug, table, event, record, fcmCredentials, effects) ==
    [version |-> version, projectSlug |-> projectSlug, table |-> table,
     event |-> event, record |-> record, fcmCredentials |-> fcmCredentials,
     effects |-> effects]

NoTrigger == Trigger("", "", <<>>, Event("", "", ""), NoRow, FALSE, <<>>)

WorkerRun(ranJob, key, url) == [job |-> ranJob, key |-> key, url |-> url]

NoWorkerRun == WorkerRun(NoPushJob, "", "")

EngineIdle == trigger = NoTrigger /\ pushQueue = <<>> /\ worker = NoWorkerRun

\* the jobs a run added to the queue
RECURSIVE jobsOf(_)
jobsOf(effects) ==
    IF effects = <<>> THEN <<>>
    ELSE (IF Head(effects).kind = "enqueue" THEN <<Head(effects).job>> ELSE <<>>)
            \o jobsOf(Tail(effects))

\* a table event reaches the engine, in the version of PushService.ts
ProcessEventTrigger ==
    /\ trigger = NoTrigger
    /\ pushQueue = <<>>
    /\ \E t \in EngineTenants, table \in RuleTables, action \in EventActions,
          record \in Rows, fcmCredentials \in BOOLEAN, tokens \in {{}, {"t1"}} :
          trigger' = Trigger("PushService.ts", t.slug, table,
                             Event("orders", action, "1"), record, fcmCredentials,
                             processEventTrigger(t.slug, table,
                                                 Event("orders", action, "1"),
                                                 record, fcmCredentials, tokens))
    /\ UNCHANGED <<pushQueue, worker, notEngineVars>>

\* a table event reaches the engine, in the queue version
ProcessEventTriggerQueue ==
    /\ trigger = NoTrigger
    /\ pushQueue = <<>>
    /\ \E t \in EngineTenants, table \in RuleTables, action \in EventActions,
          record \in Rows, fcmCredentials \in BOOLEAN :
          /\ trigger' = Trigger("queue", t.slug, table,
                                Event("orders", action, "1"), record, fcmCredentials,
                                processEventTriggerQueue(t.slug, table,
                                                         Event("orders", action, "1"),
                                                         record, fcmCredentials))
          /\ pushQueue' = jobsOf(processEventTriggerQueue(t.slug, table,
                                                          Event("orders", action, "1"),
                                                          record, fcmCredentials))
    /\ UNCHANGED <<worker, notEngineVars>>

\* the push worker takes a job and gets its pool; the delivery with that pool
\* is StartDelivery to FinishDelivery
PushWorker ==
    /\ pushQueue # <<>>
    /\ worker' = WorkerRun(Head(pushQueue),
                           uniqueKey(Head(pushQueue).dbName,
                                     PoolConfig(Head(pushQueue).externalDbUrl, FALSE)),
                           dbUrl(Head(pushQueue).dbName,
                                 PoolConfig(Head(pushQueue).externalDbUrl, FALSE)))
    /\ pushQueue' = Tail(pushQueue)
    /\ UNCHANGED <<trigger, notEngineVars>>

\* the engine's promise settled
TriggerReturn ==
    /\ trigger # NoTrigger
    /\ trigger' = NoTrigger
    /\ UNCHANGED <<pushQueue, worker, notEngineVars>>

EngineNext ==
    ProcessEventTrigger \/ ProcessEventTriggerQueue \/ PushWorker \/ TriggerReturn

-----------------------------------------------------------------------------
(* AdminController.createProject and the control plane *)

ProjectRow(name, slug, db_name) == [name |-> name, slug |-> slug, db_name |-> db_name]

NoProjectRow == ProjectRow("", "", "")

\* slug.toLowerCase().replace(/[^a-z0-9-]/g, '')
safeSlug(slug) == KeepChars(ToLowerCase(slug), LowerLetters \o "0123456789-")

\* the name and slug of the bodies sent to POST /projects
BodyNames == {"Acme", "Other"}

BodySlugs == {"acme", "Acme!", "shop"}

SafeSlugs == {safeSlug(slug) : slug \in BodySlugs}

\* the awaited steps of createProject that can reject; the provisioning of the
\* Qdrant collection is not one, its error is caught and logged
CreateSteps ==
    <<"generateKey", "insert", "createDatabase", "connect", "initProjectDb",
      "end", "rebuildNginxConfigs">>

\* 0 when the step is not one of them
StepIndex(step) ==
    IF \E i \in 1..Len(CreateSteps) : CreateSteps[i] = step
    THEN CHOOSE i \in 1..Len(CreateSteps) : CreateSteps[i] = step
    ELSE 0

\* the step that rejects: the one the environment fails, or before it the
\* INSERT of a slug system.projects has (slug is unique there), or CREATE
\* DATABASE of a name the cluster has
failedStep(rows, dbs, safe, dbName, failAt) ==
    IF failAt = "generateKey" THEN "generateKey"
    ELSE IF rows[safe] # NoProjectRow THEN "insert"
    ELSE IF failAt = "insert" THEN "insert"
    ELSE IF dbName \in dbs THEN "createDatabase"
    ELSE failAt

\* the catch block: DELETE FROM system.projects WHERE slug = $1, its own
\* rejection swallowed
rollback(rows, safe, deleteFails) ==
    IF deleteFails THEN rows
    ELSE [rows EXCEPT ![safe] = NoProjectRow]

\* the INSERT of the try block
inserted(rows, name, safe, dbName) ==
    [rows EXCEPT ![safe] = ProjectRow(name, safe, dbName)]

\* createProject, with safeSlug and dbName as it computed them and the step
\* that rejected: system.projects when the call has answered
createProject(rows, name, safe, dbName, failed, deleteFails) ==
    IF failed = "" THEN inserted(rows, name, safe, dbName)
    ELSE IF StepIndex(failed) > StepIndex("insert")
    THEN rollback(inserted(rows, name, safe, dbName), safe, deleteFails)
    ELSE rollback(rows, safe, deleteFails)

\* createProject: the databases of the cluster when the call has answered
createProjectDatabases(dbs, dbName, failed) ==
    IF failed = "" \/ StepIndex(failed) > StepIndex("createDatabase")
    THEN dbs \cup {dbName}
    ELSE dbs

\* safeSlug and dbName of each body
SafeSlugOf == [slug \in BodySlugs |-> safeSlug(slug)]

DbNameOf == [slug \in BodySlugs |-> createProjectDbName(safeSlug(slug))]

CreateCall(name, slug, before, failed, deleteFailed) ==
    [name |-> name, slug |-> slug, before |-> before, failed |-> failed,
     deleteFailed |-> deleteFailed]

NoCreateCall == CreateCall("", "", <<>>, "", FALSE)

AdminIdle ==
    /\ sysProjects = [s \in SafeSlugs |-> NoProjectRow]
    /\ databases = {}
    /\ createLast = NoCreateCall

FailAts == {""} \cup {CreateSteps[i] : i \in 1..Len(CreateSteps)}

\* POST /projects, to its answer
CreateProject ==
    /\ createLast = NoCreateCall
    /\ \E name \in BodyNames, slug \in BodySlugs, deleteFails \in BOOLEAN,
          failAt \in FailAts :
          \E failed \in {failedStep(sysProjects, databases, SafeSlugOf[slug],
                                    DbNameOf[slug], failAt)} :
              /\ sysProjects' = createProject(sysProjects, name, SafeSlugOf[slug],
                                              DbNameOf[slug], failed, deleteFails)
              /\ databases' = createProjectDatabases(databases, DbNameOf[slug], failed)
              /\ createLast' = CreateCall(name, slug, sysProjects, failed,
                                          failed # "" /\ deleteFails)
    /\ UNCHANGED notAdminVars

\* the answer was read
CreateReturn ==
    /\ createLast # NoCreateCall
    /\ createLast' = NoCreateCall
    /\ UNCHANGED <<sysProjects, databases, notAdminVars>>

AdminNext == CreateProject \/ CreateReturn

-----------------------------------------------------------------------------
(* The specifications *)

PipelineInit == PipelineIdle /\ PgIdle /\ HookIdle /\ PoolIdle /\ RealtimeIdle /\ PushIdle /\ ShutdownIdle
    /\ ExposureIdle /\ EngineIdle /\ AdminIdle

Spec == PipelineInit /\ [][PipelineNext]_vars

\* the query translator on its own
PgInit == PgIdle /\ PipelineIdle /\ HookIdle /\ PoolIdle /\ RealtimeIdle /\ PushIdle /\ ShutdownIdle
    /\ ExposureIdle /\ EngineIdle /\ AdminIdle

PgNext == BuildQuery \/ PgReturn

SpecPg == PgInit /\ [][PgNext]_vars

\* the webhook job engine on its own
HookInit == HookIdle /\ PipelineIdle /\ PgIdle /\ PoolIdle /\ RealtimeIdle /\ PushIdle /\ ShutdownIdle
    /\ ExposureIdle /\ EngineIdle /\ AdminIdle

SpecHook == HookInit /\ [][HookNext]_vars

SpecQueue == HookInit /\ [][QueueNext]_vars

\* the pool registry on its own
PoolInit == PoolIdle /\ PipelineIdle /\ PgIdle /\ HookIdle /\ RealtimeIdle /\ PushIdle /\ ShutdownIdle
    /\ ExposureIdle /\ EngineIdle /\ AdminIdle

SpecPool == PoolInit /\ [][PoolNext]_vars

\* the pool registry and its reaper
SpecReap == PoolInit /\ [][ReapNext]_vars

\* the realtime bridge
RealtimeInit == RealtimeIdle /\ PipelineIdle /\ PgIdle /\ HookIdle /\ PoolIdle /\ PushIdle /\ ShutdownIdle
    /\ ExposureIdle /\ EngineIdle /\ AdminIdle

SpecRealtime == RealtimeInit /\ [][RealtimeNext]_vars

\* the device table and the deliveries
PushInit ==
    PushIdle /\ PipelineIdle /\ PgIdle /\ HookIdle /\ PoolIdle /\ RealtimeIdle
        /\ ShutdownIdle /\ ExposureIdle /\ EngineIdle /\ AdminIdle

SpecPush == PushInit /\ [][PushNext]_vars

SpecDelivery == PushInit /\ [][DeliveryNext]_vars

\* the process serving, with connections open
ShutdownInit ==
    /\ proc = Running(MaxOpen)
    /\ PipelineIdle /\ PgIdle /\ HookIdle /\ PoolIdle /\ RealtimeIdle /\ PushIdle
    /\ ExposureIdle /\ EngineIdle /\ AdminIdle

SpecShutdown == ShutdownInit /\ [][ShutdownNext]_vars

\* the pipeline in front of getOpenApiSpec
SpecOpenApi == PipelineInit /\ [][OpenApiNext]_vars

\* the rule engine, the push queue and its worker
SpecEngine == PipelineInit /\ [][EngineNext]_vars

\* the control plane under createProject
SpecAdmin == PipelineInit /\ [][AdminNext]_vars

-----------------------------------------------------------------------------
(* Properties of the request pipeline *)

\* the request's credentials, as the specification names them
ReqBearer == BearerOf(req)

ReqAdmin == ReqBearer # "" /\ JwtVerify(ReqBearer, SYSTEM_JWT_SECRET)

\* resolveProject attached a project and cascataAuth has run
AuthRan == pc \in {"route", "done"} /\ r.project # ""

\* resolveProject fetched a project row and has run to its end
Resolved == pc \in {"auth", "route", "done"} /\ found # ""

\* the six credential rules of the authorisation state machine, in order
CredentialRules(p) ==
    << [hit |-> ReqAdmin,                        role |-> "service_role"],
       [hit |-> ReqBearer = p.service_key,       role |-> "service_role"],
       [hit |-> ReqBearer = p.anon_key,          role |-> "anon"],
       [hit |-> req.apikey = p.service_key,      role |-> "service_role"],
       [hit |-> ReqBearer # "" /\ JwtVerify(ReqBearer, p.jwt_secret),
                                                 role |-> "authenticated"],
       [hit |-> req.apikey = p.anon_key,         role |-> "anon"] >>

FirstHit(rules) ==
    LET hits == {i \in 1..Len(rules) : rules[i].hit}
    IN  IF hits = {} THEN 0
        ELSE CHOOSE i \in hits : \A j \in hits : i <= j

\* C1: on a request with a resolved project, cascataAuth assigns the role of
\* the first credential rule that matches (admin, bearer = service key,
\* bearer = anon key, apikey = service key, bearer a tenant JWT, apikey =
\* anon key) and no other; the JWT rule attaches the token's claims.
C1_FirstMatchingRule ==
    AuthRan =>
        LET rules == CredentialRules(Projects[r.project])
            k == FirstHit(rules)
        IN  k # 0 =>
              /\ res # 401
              /\ r.userRole = rules[k].role
              /\ (k = 5 => r.user = JwtDecode(ReqBearer, Projects[r.project].jwt_secret))
              /\ (k # 5 => r.user = "")

\* a request on which a later rule's credential is also present: bearer is
\* the anon key and apikey the service key, and the bearer rule won
C1_Witness ==
    /\ AuthRan
    /\ ReqBearer = Projects[r.project].anon_key
    /\ req.apikey = Projects[r.project].service_key
    /\ r.userRole = "anon"

\* no credential rule matches
NoCredential == AuthRan /\ FirstHit(CredentialRules(Projects[r.project])) = 0

\* the auth-flow allow-list: OAuth providers / callback / authorize,
\* passwordless, token refresh, challenge
OnAuthFlowList(path) ==
    \E frag \in {"/auth/providers/", "/auth/callback", "/auth/v1/authorize",
                 "/auth/v1/callback", "/auth/v1/verify", "/auth/passwordless/",
                 "/auth/token/refresh", "/auth/challenge",
                 "/auth/verify-challenge"} : Includes(path, frag)

Denied401 == res = 401 /\ r.userRole = "" /\ ~handled /\ pc = "done"

\* C2 as stated: a tenant request with no matching credential whose path is
\* not on the auth-flow allow-list is answered 401, gets no role and reaches
\* no route handler.
C2_AsStated ==
    (NoCredential /\ ~OnAuthFlowList(r.url)) => Denied401

\* the further paths cascataAuth lets through as anon
OnOpenPathList(path) ==
    \E frag \in {"/auth/users", "/auth/token", "/auth/v1/", "/edge/"} :
        Includes(path, frag)

\* C2 (amended): a tenant request with no matching credential whose path is
\* neither on the auth-flow allow-list nor one of /auth/users, /auth/token,
\* /auth/v1/ and /edge/ is answered 401, gets no role and reaches no route
\* handler.
C2_Unauthorized ==
    (NoCredential /\ ~OnAuthFlowList(r.url) /\ ~OnOpenPathList(r.url))
        => Denied401

C2_Witness ==
    /\ NoCredential
    /\ ReqBearer = "garbage"
    /\ req.apikey = "anon_shop"
    /\ r.project = "acme"
    /\ Denied401

\* C3: a request resolved to a project whose panic flag is set is answered
\* 503 with no project and no pool attached unless it is a verified admin's,
\* and a verified admin's request is never answered 503.
C3_PanicShield ==
    (Resolved /\ shield) =>
        IF ReqAdmin
        THEN res # 503
        ELSE /\ res = 503
             /\ pc = "done"
             /\ r.project = ""
             /\ r.projectPool = NoPool
             /\ ~handled

\* a tenant service key is refused under panic
C3_Witness ==
    /\ Resolved /\ shield
    /\ ReqBearer = Projects[found].service_key
    /\ res = 503

\* the host names a loopback address (the port put aside)
IsLoopbackHost(host) ==
    LET name == Split(host, ":")[1]
    IN  name = "localhost" \/ StartsWith(name, "127.")

\* C4: when the fetched project has a custom domain and was reached through
\* the slug path, the request is rejected (403, or 503 by the panic shield
\* that runs first) with no project and no pool attached, unless the caller
\* is a verified admin or the host is a loopback host.
C4_DomainLocking ==
    (/\ Resolved
     /\ Projects[found].custom_domain # ""
     /\ req.host # Projects[found].custom_domain
     /\ ~ReqAdmin
     /\ ~IsLoopbackHost(req.host))
        => /\ res \in {403, 503}
           /\ r.project = ""
           /\ r.projectPool = NoPool

\* C5: runRawQuery sends the caller's SQL to the tenant database only for
\* service_role; for every other role it answers 403 and sends nothing.
C5_RawSqlServiceRoleOnly ==
    /\ dbLog # {} => r.userRole = "service_role"
    /\ (handled /\ IsRawQueryRoute(req, r)) =>
          IF r.userRole = "service_role"
          THEN dbLog = {[sql |-> RawSql, pool |-> r.projectPool, role |-> "service_role"]}
          ELSE res = 403 /\ dbLog = {}

\* a tenant user with a valid JWT is refused
C5_Witness ==
    /\ handled /\ IsRawQueryRoute(req, r)
    /\ r.userRole = "authenticated"
    /\ res = 403
    /\ dbLog = {}

-----------------------------------------------------------------------------
(* Properties of the query translator *)

\* the index of the last digit of the run of digits that follows position i
RECURSIVE DigitRun(_, _)
DigitRun(text, i) ==
    IF i < Len(text) /\ IndexOf(Digits, SubSeq(text, i + 1, i + 1)) # 0
    THEN DigitRun(text, i + 1)
    ELSE i

\* the numbers n of the placeholders $n that occur in a SQL text
PlaceholdersIn(text) ==
    { ParseInt(SubSeq(text, i + 1, DigitRun(text, i))) :
        i \in {k \in 1..Len(text) : SubSeq(text, k, k) = "$" /\ DigitRun(text, k) > k} }

PgBuilt == pgIn # NoCall /\ pgOut.ok /\ pgOut.text # ""

\* the query parameters yield no effective filter: each one is a reserved
\* parameter or parses to an empty clause
NoEffectiveFilter(query) ==
    \A i \in 1..Len(query) :
        \/ query[i][1] \in ReservedAll
        \/ parseFilter(query[i][1], query[i][2], 1).clause = ""

\* C6: in every query buildQuery returns, the placeholders of the SQL text
\* are exactly $1..$n with n the length of the values array, and the value at
\* each placeholder is the one the clause naming that placeholder was built
\* for.
C6_PlaceholdersMatchValues ==
    PgBuilt =>
        /\ PlaceholdersIn(pgOut.text) = 1..Len(pgOut.values)
        /\ \A i \in 1..Len(pgOut.binds) :
              /\ pgOut.binds[i].ph \in 1..Len(pgOut.values)
              /\ pgOut.values[pgOut.binds[i].ph] = pgOut.binds[i].val

\* C7: a PATCH or DELETE whose query parameters yield no effective filter is
\* rejected with an error and returns no SQL, so no UPDATE or DELETE without
\* a WHERE clause is ever produced.
C7_FilterlessMutationRejected ==
    /\ (pgIn.method \in {"PATCH", "DELETE"} /\ NoEffectiveFilter(pgIn.query))
          => (~pgOut.ok /\ pgOut.text = "")
    /\ (pgIn.method \in {"PATCH", "DELETE"} /\ pgOut.ok)
          => Includes(pgOut.text, " WHERE ")

\* every UPDATE or DELETE statement that is returned has a WHERE clause
MutationHasWhere ==
    (pgIn.method \in {"PATCH", "DELETE"} /\ pgOut.ok) => Includes(pgOut.text, " WHERE ")

-----------------------------------------------------------------------------
(* Properties of the webhook job engine *)

\* an IPv6 literal without the square brackets a URL writes it in
Unbracketed(h) ==
    IF StartsWith(h, "[") /\ EndsWith(h, "]") THEN SubSeq(h, 2, Len(h) - 1) ELSE h

HexDigits == "0123456789abcdef"

RECURSIVE HexVal(_)
HexVal(s) ==
    IF s = "" THEN 0
    ELSE 16 * HexVal(SubSeq(s, 1, Len(s) - 1))
            + (IndexOf(HexDigits, SubSeq(s, Len(s), Len(s))) - 1)

\* 10/8, 127/8, 169.254/16, 172.16/12, 192.168/16, 0/8
InV4Ranges(o) ==
    /\ Len(o) = 4
    /\ \/ o[1] \in {0, 10, 127}
       \/ o[1] = 169 /\ o[2] = 254
       \/ o[1] = 172 /\ o[2] \div 16 = 1
       \/ o[1] = 192 /\ o[2] = 168

\* ::1, ::, fc00::/7 (the first 7 bits of fc00), fe80::/10 (the first 10 of fe80)
InV6Ranges(addr, firstHextet) ==
    \/ addr \in {"::1", "::"}
    \/ firstHextet \div 512 = 126
    \/ firstHextet \div 64 = 1018

InPrivateRange(addr) ==
    IF Includes(addr, ".") THEN InV4Ranges(Numbers(Split(addr, ".")))
    ELSE IF Includes(addr, ":")
    THEN InV6Ranges(addr, HexVal(ToLowerCase(Before(addr, ":"))))
    ELSE FALSE

\* the target of an attempt is one the guard has to refuse
ForbiddenHost(h, records) ==
    \/ h \in {"localhost", "0.0.0.0", "::1"}
    \/ h \in internalServices
    \/ InPrivateRange(h)
    \/ records # DnsFailure /\ \E i \in 1..Len(records) : InPrivateRange(records[i])

\* C8: an attempt whose target hostname is localhost, 0.0.0.0, ::1, an
\* internal service name, or is or resolves to a private, loopback or
\* link-local address makes no POST to that target and fails with the error of
\* the SSRF guard.
C8_SsrfGuard ==
    (attempt # NoAttempt
        /\ ForbiddenHost(Unbracketed(hostnameOf(attempt.targetUrl)), attempt.records))
    => /\ \A i \in 1..Len(attempt.posts) : attempt.posts[i].url # attempt.targetUrl
       /\ StartsWith(attempt.error, "SSRF Protection: ")

IsTargetPost(p) == p.kind = "target"

TargetPosts == SelectSeq(outbox, IsTargetPost)

JobSent == job.state = "completed" /\ job.returnvalue = "sent"

\* C9 as stated: a job that completed with sent made exactly one POST to the
\* target over all its attempts, signed under the project's current secret.
C9_ExactlyOnePost ==
    JobSent =>
        /\ Len(TargetPosts) = 1
        /\ \A i \in 1..Len(TargetPosts) :
              TargetPosts[i].signature = Hmac(projSecret, TargetPosts[i].body)

\* C9: a job that completed with sent made at least one POST to the target
\* and at most one per attempt, the last of them in the attempt that
\* completed it, and every one of them carried the JSON of the job's payload
\* with the HMAC-SHA256 of that body under the secret the job was enqueued
\* with.
C9_SentPostsSigned ==
    JobSent =>
        /\ Len(TargetPosts) >= 1
        /\ Len(TargetPosts) <= job.attemptsMade
        /\ Len(attempt.posts) = 1 /\ attempt.posts[1] = outbox[Len(outbox)]
        /\ \A i \in 1..Len(TargetPosts) :
              /\ TargetPosts[i].url = job.data.targetUrl
              /\ TargetPosts[i].body = JsonStringify(job.data.payload)
              /\ TargetPosts[i].signature = Hmac(job.data.secret, TargetPosts[i].body)

\* a job sent at its third attempt or later, after the project's key was rotated
C9_Witness ==
    /\ JobSent
    /\ Len(TargetPosts) >= 3
    /\ job.data.secret # projSecret

\* the secrets a webhook is signed with
SigningSecrets == {projSecret, hook.secret_header, job.data.secret} \ {""}

\* C10: no console line, no response body of the admin API and no body of an
\* outbound POST (to the target or to the fallback) contains a signing secret.
C10_SecretNeverObservable ==
    \A s \in SigningSecrets :
        /\ ~Includes(httpRes, s)
        /\ \A i \in 1..Len(logs) : ~Includes(logs[i], s)
        /\ \A i \in 1..Len(outbox) : ~Includes(outbox[i].body, s)

-----------------------------------------------------------------------------
(* Properties of the pool registry *)

\* the operation just done is a get that constructed a pool while the Map was full
CapReached ==
    /\ last.op = "get"
    /\ last.created
    /\ last.size >= MAX_ACTIVE_POOLS

Idle(e) == clock - e.lastAccessed > IDLE_THRESHOLD_MS

\* C11: after every reaper tick the registry holds at most MAX_ACTIVE_POOLS
\* entries, whatever acquisitions, closes and pool errors came before
C11_SizeAfterTick == last.op = "reap" => Len(pools) <= MAX_ACTIVE_POOLS

\* a tick that leaves the registry full, after more pools than the cap were made
C11_Witness ==
    /\ last.op = "reap"
    /\ Len(pools) = MAX_ACTIVE_POOLS
    /\ Len(poolObjs) > MAX_ACTIVE_POOLS

\* C12 as stated: a get that creates an entry in a full registry leaves exactly
\* MAX_ACTIVE_POOLS entries
C12_ExactlyMax == CapReached => Len(pools) = MAX_ACTIVE_POOLS

\* C12: a get that creates an entry in a full registry leaves at most
\* MAX_ACTIVE_POOLS entries, and exactly that many when none of the entries
\* it closed was idle; no entry it closed was accessed later than an entry it
\* left; the entry just acquired is left in the registry, its pool not closed
C12_EvictionOnAcquire ==
    CapReached =>
        /\ Len(pools) <= MAX_ACTIVE_POOLS
        /\ (\A i \in 1..Len(last.closed) : ~Idle(last.closed[i]))
                => Len(pools) = MAX_ACTIVE_POOLS
        /\ \A i \in 1..Len(last.closed) : \A k \in 1..Len(pools) :
                last.closed[i].lastAccessed <= pools[k].lastAccessed
        /\ last.closed # <<>>
        /\ last.pool \notin PoolsOf(last.closed)
        /\ PoolAt(pools, last.key) = last.pool
        /\ ~poolObjs[last.pool].ended

\* the fifth tenant of the example: the oldest entry closed, the cap left
C12_Witness ==
    /\ CapReached
    /\ Len(last.closed) = 1
    /\ Len(pools) = MAX_ACTIVE_POOLS

\* C20: after a reaper tick no entry older than the idle threshold remains,
\* and with the registry at or under the cap the tick closed no entry
\* accessed within the threshold
C20_IdleReap ==
    last.op = "reap" =>
        /\ \A k \in 1..Len(pools) : ~Idle(pools[k])
        /\ last.size <= MAX_ACTIVE_POOLS
                => \A i \in 1..Len(last.closed) : Idle(last.closed[i])

\* a tick that closed an idle entry and left a recent one
C20_Witness ==
    /\ last.op = "reap"
    /\ last.closed # <<>>
    /\ pools # <<>>

\* the operation just done is a get that returned a pool
GotPool == last.op = "get" /\ last.threw = ""

\* C13: the registry holds one entry for a key, and a get for a key that has
\* an entry constructs nothing and returns the pool of that entry, which stays
C13_OnePoolPerKey ==
    /\ \A i \in 1..Len(pools) : \A k \in 1..Len(pools) :
            pools[i].key = pools[k].key => i = k
    /\ (last.op = "get" /\ last.prior # 0) =>
            /\ ~last.created
            /\ last.threw = ""
            /\ last.pool = last.prior
            /\ PoolAt(pools, last.key) = last.prior

\* a get that returned the handle an earlier caller still holds
C13_Witness ==
    /\ last.op = "get"
    /\ last.prior # 0
    /\ held = last.pool

\* the tenant has an external primary and a different read replica
HasPrimaryAndReplica(t) ==
    /\ t.external_db_url # ""
    /\ t.read_replica_url # ""
    /\ t.external_db_url # t.read_replica_url

\* C14: for a tenant with an external primary and a different read replica,
\* a get with one of the two connection strings returns a pool connected to
\* that connection string
C14_PrimaryAndReplicaDistinct ==
    (GotPool /\ HasPrimaryAndReplica(TenantOf(last.tenant))) =>
        poolObjs[last.pool].url = StrategyUrl[last.tenant, last.method]

\* the URL of the internal pool of a tenant database
InternalUrl(t) == dbUrl(t.db_name, PoolConfig("", FALSE))

\* the URLs the selection rule allows for a request: a GET of a tenant with a
\* replica may read the replica; otherwise the external primary if there is
\* one, else the internal pool
RuleUrls(t, method) ==
    (IF method = "GET" /\ t.read_replica_url # "" THEN {t.read_replica_url} ELSE {})
        \cup (IF t.external_db_url # "" THEN {t.external_db_url} ELSE {InternalUrl(t)})

\* C15: the pool attached to a request is one the selection rule allows, and
\* a request that is not a GET is not served by the replica pool
C15_PoolSelection ==
    GotPool =>
        /\ poolObjs[last.pool].url \in RuleUrls(TenantOf(last.tenant), last.method)
        /\ last.method # "GET" =>
                poolObjs[last.pool].url # TenantOf(last.tenant).read_replica_url

\* C16: a query on a handle a caller got from get and still holds is answered,
\* whatever happened to the entry since
C16_HeldHandleUsable == last.op = "query" => last.threw = ""

\* C17: after a pool's error event the registry has no entry under the pool's
\* key and nothing was thrown; a get that finds no entry returns a pool it
\* constructed itself, not one made before
C17_PoolErrorRemovesEntry ==
    /\ last.op = "error" => (~Has(pools, last.key) /\ last.threw = "")
    /\ (GotPool /\ last.prior = 0) =>
            /\ last.created
            /\ last.pool = Len(poolObjs)
            /\ ~poolObjs[last.pool].ended

\* the error event of a pool that was in the registry
C17_Witness ==
    /\ last.op = "error"
    /\ last.prior = last.pool

\* C18: a get in which new Pool throws leaves the Map and the pools as they
\* were, with no entry under the key
C18_FailedConstruction ==
    [][(last'.op = "get" /\ last'.threw # "") =>
            /\ pools' = pools
            /\ poolObjs' = poolObjs
            /\ ~Has(pools', last'.key)]_vars

\* a failed construction while the registry holds other entries
C18_Witness ==
    /\ last.op = "get"
    /\ last.threw # ""
    /\ pools # <<>>

\* the keys get computes for a database identifier
KeysOfDb(db) ==
    {StrategyKey[t.slug, method] : t \in {u \in Tenants : u.db_name = db},
                                   method \in Methods}

\* C19: close(db) closes the entries of db, all of them, and no entry of
\* another database identifier
C19_CloseExactlyDb ==
    last.op = "close" =>
        /\ KeysOf(last.closed) \subseteq KeysOfDb(last.db)
        /\ KeysOf(pools) \cap KeysOfDb(last.db) = {}

-----------------------------------------------------------------------------
(* Properties of the realtime bridge *)

\* a handleConnection of the tenant is waiting for setupProjectListener
ConnectInProgress(slug) ==
    \E id \in 1..Len(conns) : conns[id].slug = slug /\ conns[id].at = "setup"

\* C21: a tenant with a registered subscriber has exactly one LISTEN
\* connection open
C21_OneListener ==
    \A slug \in Slugs :
        subscribers[slug] # {} => Cardinality(OpenListeners(slug)) = 1

\* C22: a tenant with no registered subscriber and no connect in progress has
\* no LISTEN connection open
C22_NoSubscribersNoListener ==
    \A slug \in Slugs :
        (subscribers[slug] = {} /\ ~ConnectInProgress(slug))
            => OpenListeners(slug) = {}

\* C23: a project never has more than MAX_CLIENTS_PER_PROJECT registered
\* subscribers, and a connect that finds it at the cap is answered 429
C23_SubscriberCap ==
    /\ \A slug \in Slugs :
            Cardinality(subscribers[slug]) <= MAX_CLIENTS_PER_PROJECT
    /\ (rtLast.op = "connect" /\ rtLast.status = 200) =>
            Cardinality(subscribers[rtLast.slug] \ {Len(conns)})
                < MAX_CLIENTS_PER_PROJECT

\* C24: no connection whose socket has closed is registered
C24_ClosedNotRegistered ==
    \A slug \in Slugs : \A id \in subscribers[slug] : conns[id].open

\* C25: a notification of a tenant is written once to each registered
\* subscriber of the tenant whose filter is unset or is the payload's table,
\* and to no other connection
C25_FanOut ==
    rtLast.op = "notify" =>
        \A id \in 1..Len(conns) :
            rtLast.wrote[id] =
                IF /\ id \in subscribers[rtLast.slug]
                   /\ conns[id].slug = rtLast.slug
                   /\ conns[id].tableFilter \in {"", rtLast.table}
                THEN 1 ELSE 0

-----------------------------------------------------------------------------
(* Properties of the webhook queue *)

PolicyAttempts(policy) ==
    IF policy = "none" THEN 1 ELSE IF policy = "linear" THEN 5 ELSE 10

PolicyBackoff(policy) ==
    IF policy = "linear" THEN [type |-> "fixed", delay |-> 5000]
    ELSE [type |-> "exponential", delay |-> 1000]

\* C26: every enqueued job carries the attempts and the backoff of its retry
\* policy: none 1 attempt; linear 5 attempts with a fixed 5 s backoff;
\* standard or no policy 10 attempts with exponential backoff from 1 s
C26_PolicyTable ==
    job # NoJob =>
        /\ job.opts.attempts = PolicyAttempts(job.data.retryPolicy)
        /\ job.opts.attempts > 1 => job.opts.backoff = PolicyBackoff(job.data.retryPolicy)

CountKind(posts, kind) ==
    Cardinality({i \in 1..Len(posts) : posts[i].kind = kind})

TargetCount == CountKind(outbox, "target")

FallbackCount == CountKind(outbox, "fallback")

\* the fallback address passes, or fails, the SSRF validation whatever the
\* name service answers
FallbackAllowed ==
    \A records \in DnsLookup(hostnameOf(job.data.fallbackUrl)) :
        validateTarget(job.data.fallbackUrl, records) = ""

FallbackRefused ==
    \A records \in DnsLookup(hostnameOf(job.data.fallbackUrl)) :
        validateTarget(job.data.fallbackUrl, records) # ""

\* the job has failed and every one of its attempts reached the delivery POST
\* (none was stopped by the validation of the target)
EveryAttemptPosted ==
    /\ job.state = "failed"
    /\ job.data.fallbackUrl # ""
    /\ TargetCount = job.attemptsMade

\* C27: a job with a fallback address whose every delivery POST fails makes
\* exactly opts.attempts delivery POSTs, then one POST to the fallback address
\* when that address passes the SSRF validation and none when it is refused;
\* the fallback POST comes only with the failure of the last attempt, after
\* every delivery POST, and at most once per job
C27_FallbackAfterLastAttempt ==
    /\ FallbackCount <= 1
    /\ FallbackCount = 1 =>
          /\ job.state = "failed"
          /\ job.attemptsMade = job.opts.attempts
          /\ outbox[Len(outbox)].kind = "fallback"
    /\ EveryAttemptPosted =>
          /\ TargetCount = job.opts.attempts
          /\ FallbackAllowed => FallbackCount = 1
          /\ FallbackRefused => FallbackCount = 0

C27_Witness ==
    /\ EveryAttemptPosted
    /\ job.opts.attempts = 10
    /\ TargetCount = 10
    /\ FallbackCount = 1
    /\ outbox[11].url = job.data.fallbackUrl

\* C27 as stated: such a job always ends with exactly one POST to the
\* fallback address
C27_AlwaysOneFallback ==
    EveryAttemptPosted => (TargetCount = job.opts.attempts /\ FallbackCount = 1)

\* the last attempt was answered 404
Answered404 == attempt.error = "Request failed with status code 404"

\* C28: a delivery attempt answered with a 4xx status other than 429 ends the
\* job: it is failed at once, whatever attempts remain, and the answered POST
\* is the last delivery POST to the target
C28_PermanentFailure ==
    Answered404 => (job.state = "failed" /\ job.attemptsMade <= TargetCount)

-----------------------------------------------------------------------------
(* Properties of the push service *)

\* C29: once a registerDevice call that overlapped no other call on the same
\* token has returned, and while no call on that token is in progress, the
\* token has exactly one row: the caller's, as the call wrote it, whoever
\* owned the token before and however often the caller had registered it
C29_SequentialRegistration ==
    (pushLast.op = "register" /\ pushLast.alone
        /\ InFlight(calls, pushLast.token) = {})
    => RowsOfToken(devices, pushLast.token)
          = {DeviceRow(pushLast.userId, pushLast.token, pushLast.now)}

\* a call that ran alone took the token from another user
C29_Witness ==
    /\ pushLast.op = "register" /\ pushLast.alone /\ pushLast.evicted
    /\ InFlight(calls, pushLast.token) = {}
    /\ RowsOfToken(devices, pushLast.token)
          = {DeviceRow(pushLast.userId, pushLast.token, pushLast.now)}

\* C29 as stated: after any registerDevice calls each token is owned by at
\* most one user
C29_OneOwnerPerToken ==
    \A token \in DeviceTokens :
        InFlight(calls, token) = {} =>
            Cardinality(RowsOfToken(devices, token)) <= 1

Unregistered(answer) == answer.errorCode = "UNREGISTERED" \/ answer.status = 404

\* C30: when a delivery finishes, every selected device was attempted, the
\* devices FCM answered UNREGISTERED or 404 for were deleted, and the devices
\* that were sent to or failed with another error were left in the table
C30_SelfHealing ==
    delivery.state = "done" =>
        \A token \in delivery.tokens :
            /\ delivery.answers[token] # NoAnswer
            /\ delivery.kept[token] = ~Unregistered(delivery.answers[token])

-----------------------------------------------------------------------------
(* The fallback of a job that fails *)

Logged(lines, line) == \E i \in 1..Len(lines) : lines[i] = line

\* C36: whenever a job with a fallback address becomes failed, the step that
\* fails it has triggered the fallback alert (sent, or tried and failed),
\* whatever made the attempts fail
C36_FallbackBeforeFailed ==
    [][(job.state # "failed" /\ job'.state = "failed" /\ job.data.fallbackUrl # "")
          => Logged(logs', fallbackWarn(job))]_vars

-----------------------------------------------------------------------------
(* Pools that leave the registry *)

Registered(reg, id) == \E i \in 1..Len(reg) : reg[i].pool = id

\* C38: no open pool is lost: every pool the registry constructed and that is
\* no longer in the map has had end() called on it
C38_NoLostPool ==
    \A id \in 1..Len(poolObjs) : ~poolObjs[id].ended => Registered(pools, id)

\* C39: an error emitted by a pool that is no longer the one registered under
\* its key leaves the entry of the pool registered there since
C39_LateErrorKeepsNewer ==
    (last.op = "error" /\ last.prior # 0 /\ last.prior # last.pool)
    => PoolAt(pools, last.key) = last.prior

-----------------------------------------------------------------------------
(* Properties of the shutdown *)

\* C35: the process exits with code 0 only once the HTTP server has closed,
\* the tenant pools have drained and the system pool has ended
C35_GracefulExit ==
    proc.exit = 0 =>
        (proc.server = "closed" /\ proc.tenant = "ended" /\ proc.system = "ended")

-----------------------------------------------------------------------------
(* Properties of schema discovery *)

DiscoveryAllowed == r.isSystemRequest \/ exposure[r.project] = JsTrue

SpecGenerated == \E s \in dbLog : s.sql = IntrospectSql

Answered == pc = "done" /\ handled

\* C33: getOpenApiSpec answers 403 and generates nothing when the project's
\* schema_exposure is not the boolean true and the caller is not a system
\* (admin) request, whatever the tenant role, service_role included; otherwise
\* it runs the generation
C33_SchemaExposure ==
    Answered =>
        /\ ~DiscoveryAllowed => (res = 403 /\ ~SpecGenerated)
        /\ DiscoveryAllowed => (res \in {200, 500} /\ SpecGenerated)

\* a service_role caller is refused while exposure holds a value other than
\* the boolean true
C33_Witness ==
    /\ Answered
    /\ r.userRole = "service_role" /\ ~r.isSystemRequest
    /\ exposure[r.project] = JsValue("string", "true")
    /\ res = 403 /\ ~SpecGenerated

-----------------------------------------------------------------------------
(* The rows a translated GET returns *)

\* the id column of the rows of the table
CustomerIds == {"1", "2", "7"}

Returned(rows) == [error |-> "", rows |-> rows]

Rejected(error) == [error |-> error, rows |-> {}]

\* PostgreSQL on the WHERE clause of a one-filter SELECT over the table, with
\* the values node-postgres binds: the number of values must be the number of
\* placeholders, and ANY($1) takes an array, for which a scalar text is a
\* malformed array literal
anyOf(value) ==
    IF value.arr
    THEN Returned({id \in CustomerIds :
                     \E i \in 1..Len(value.items) : value.items[i] = id})
    ELSE Rejected("malformed array literal")

execute(text, values) ==
    IF PlaceholdersIn(text) # 1..Len(values)
    THEN Rejected("bind message supplies " \o ToString(Len(values)) \o " parameters")
    ELSE IF Includes(text, "WHERE 1 = 0") THEN Returned({})
    ELSE IF Includes(text, "WHERE \"id\" = ANY($1)") THEN anyOf(values[1])
    ELSE IF Includes(text, "WHERE \"id\" = $1")
    THEN Returned({id \in CustomerIds : id = values[1].items[1]})
    ELSE Returned(CustomerIds)

\* the list v1,...,vn of a filter value in.(v1,...,vn)
InList(value) ==
    IF Len(value) <= 5 THEN {}
    ELSE {Split(SubSeq(value, 5, Len(value) - 1), ",")[i] :
            i \in 1..Len(Split(SubSeq(value, 5, Len(value) - 1), ","))}

OneFilterGet(op) ==
    /\ PgBuilt
    /\ pgIn.method = "GET"
    /\ Len(pgIn.query) = 1
    /\ pgIn.query[1][1] = "id"
    /\ StartsWith(pgIn.query[1][2], op \o ".")

\* C34: a GET with the one filter id=in.(v1,...,vn) returns exactly the rows
\* whose id is one of v1..vn, with no SQL error: the rows of id=eq.v for a
\* one-element list, and no row, with no value bound, for the empty list
C34_InFilterRows ==
    /\ OneFilterGet("in") =>
          /\ execute(pgOut.text, pgOut.values)
                = Returned(CustomerIds \cap InList(pgIn.query[1][2]))
          /\ InList(pgIn.query[1][2]) = {} => pgOut.values = <<>>
    /\ OneFilterGet("eq") =>
          execute(pgOut.text, pgOut.values)
                = Returned(CustomerIds \cap {SubSeq(pgIn.query[1][2], 4,
                                                    Len(pgIn.query[1][2]))})

-----------------------------------------------------------------------------
(* Properties of the rule engine, the push queue and createProject *)

\* the engine ran, with credentials configured
Triggered == trigger # NoTrigger /\ trigger.fcmCredentials

\* C31: a run of processEventTrigger makes no OAuth and no FCM call: all it
\* does for a rule is add one job to the push queue
C31_OnlyEnqueues ==
    \A i \in 1..Len(trigger.effects) :
        /\ trigger.effects[i].kind \notin {"oauth", "fcm"}
        /\ Cardinality({k \in 1..Len(trigger.effects) :
                            /\ trigger.effects[k].rule = trigger.effects[i].rule
                            /\ trigger.effects[k].kind = "enqueue"}) = 1

\* a condition of a rule holds on a row
Holds(cond, record) ==
    IF cond.op = "eq" THEN Field(record, cond.field) = cond.value
    ELSE Field(record, cond.field) # cond.value

\* the rule is one that has to produce a push for the event
ShouldPush(rule, projectSlug, event, record) ==
    /\ rule.active
    /\ rule.project_slug = projectSlug
    /\ rule.trigger_table = event.table
    /\ rule.trigger_event = event.action \/ rule.trigger_event = "ALL"
    /\ event.action # "DELETE"
    /\ record # NoRow
    /\ \A i \in 1..Len(rule.conditions) : Holds(rule.conditions[i], record)
    /\ Field(record, rule.recipient_column) \notin {JsNull, JsUndefined}

\* the run called sendToUser for the rule
Pushed(effects, rule) == \E i \in 1..Len(effects) : effects[i].rule = rule.id

PushedAsSpecified(run) ==
    \A k \in 1..Len(run.table) :
        Pushed(run.effects, run.table[k])
            <=> ShouldPush(run.table[k], run.projectSlug, run.event, run.record)

\* C37: a run produces a push for a rule exactly when the rule is active, is
\* of the project, the table and the action (or ALL), the action is not
\* DELETE, the row exists, its conditions hold on the row and the recipient
\* column is not null, whatever the other rules of the table
C37_PushIffRuleMatches == Triggered => PushedAsSpecified(trigger)

\* the same of the version of PushService.ts alone
DirectPushIffRuleMatches ==
    (Triggered /\ trigger.version = "PushService.ts") => PushedAsSpecified(trigger)

\* C32: the pool the worker gets for a job is the pool that serves the writes
\* of the job's tenant: of its external primary when it has one, of its
\* recorded database name otherwise
C32_WorkerPoolIsTenantPool ==
    worker # NoWorkerRun =>
        /\ worker.key = uniqueKey(EngineTenantOf(worker.job.projectSlug).db_name,
                                  StrategyConfig(EngineTenantOf(worker.job.projectSlug),
                                                 "POST"))
        /\ worker.url = dbUrl(EngineTenantOf(worker.job.projectSlug).db_name,
                              StrategyConfig(EngineTenantOf(worker.job.projectSlug),
                                             "POST"))

\* the same for the tenants createProject made and that were not ejected
CreatedTenantPool ==
    (worker # NoWorkerRun /\ worker.job.projectSlug = "my-app") =>
        worker.url = dbUrl(EngineTenantOf("my-app").db_name,
                           StrategyConfig(EngineTenantOf("my-app"), "POST"))

\* C40: a createProject that failed left every record of system.projects
\* that existed before the call as it was
C40_FailedCreateKeepsRecords ==
    (createLast # NoCreateCall /\ createLast.failed # "") =>
        \A s \in SafeSlugs :
            createLast.before[s] # NoProjectRow => sysProjects[s] = createLast.before[s]

\* a createProject that failed after its INSERT removed the row it inserted
OwnInsertRolledBack ==
    (createLast # NoCreateCall /\ createLast.failed # "" /\ ~createLast.deleteFailed) =>
        \A s \in SafeSlugs : createLast.before[s] = NoProjectRow => sysProjects[s] = NoProjectRow

=============================================================================
